---- MODULE Spec2Model ----
(***************************************************************************)
(* Three-way merge of user keybindings (keybindingsMerge.merge) as a       *)
(* state machine: the inputs of one invocation are the state after         *)
(* construction, and the single operation Merge computes the result.       *)
(*                                                                         *)
(* Data model.                                                             *)
(*   - A command string is [dash, name]: the text is `dash` leading '-'    *)
(*     characters followed by `name` (which does not start with '-'), so   *)
(*     command[0] === '-' is dash > 0, command.substring(1) is dash - 1    *)
(*     and `-${command}` is dash + 1.                                      *)
(*   - A when guard is the sequence of its conjuncts as written            *)
(*     ("a && b" is <<"a", "b">>); an absent guard is <<>>.                *)
(*   - A text is a sequence of tokens, concatenation is \o.  A keybindings *)
(*     document is one token that carries its line ending and its records  *)
(*     as written (raw keys, guards as spelled); marker lines and line     *)
(*     ends are literal tokens.                                            *)
(*   - A JS Set<string> / Map is kept in insertion order: a Set is a       *)
(*     sequence without repetitions, a Map is [order, get].                *)
(***************************************************************************)
EXTENDS Integers, Sequences, FiniteSets, TLC

VARIABLES
  localContent,    \* the three input texts and the normalization table
  remoteContent,
  baseContent,
  normalizedKeys,
  pc,              \* "start" before the invocation, "done" after it
  result,          \* the value merge returned
  locals,          \* the locals of merge when it returned
  compared,        \* the results of the compare functions on the three texts
  state,           \* Scrollable._state
  smoothScrolling, \* Scrollable._smoothScrolling: <<>> for null, <<operation>>
  frames,          \* the scheduled animation-frame callbacks not yet run
  now,             \* the value of Date.now()
  error,           \* a handler ended with a TypeError on a null operation
  disposed,        \* Scrollable.dispose has run
  last             \* what the animation tick of the last step reported

scrollVars == <<state, smoothScrolling, frames, now, error, disposed, last>>

vars ==
  <<localContent, remoteContent, baseContent, normalizedKeys, pc, result, locals,
    compared, scrollVars>>

(***************************************************************************)
(* Bounds.                                                                 *)
(***************************************************************************)
MaxLen == 2
MaxBase == 1

(***************************************************************************)
(* Generic helpers on sequences used as insertion-ordered sets.            *)
(***************************************************************************)
Has(s, x) == \E i \in 1..Len(s) : s[i] = x

Range(s) == {s[i] : i \in 1..Len(s)}

\* Set.add for each element of t in order: appends the elements not yet present.
RECURSIVE AddAll(_, _)
AddAll(s, t) ==
  IF t = <<>> THEN s
  ELSE AddAll(IF Has(s, Head(t)) THEN s ELSE Append(s, Head(t)), Tail(t))

(***************************************************************************)
(* Command strings.                                                        *)
(***************************************************************************)
Cmd(d, n) == [dash |-> d, name |-> n]

StartsWithDash(c) == c.dash > 0

Substring1(c) == Cmd(c.dash - 1, c.name)

Negated(c) == Cmd(c.dash + 1, c.name)

(***************************************************************************)
(* Texts.                                                                  *)
(***************************************************************************)
Lit(str) == [kind |-> "lit", eol |-> "", recs |-> <<>>, s |-> str]

DocTok(e, rs) == [kind |-> "doc", eol |-> e, recs |-> rs, s |-> ""]

Doc(e, rs) == <<DocTok(e, rs)>>

\* json.parse of a keybindings document: the records in document order.
parse(content) == content[1].recs

\* contentUtil.getEol: the line ending the text uses.
getEol(content) == content[1].eol

\* contentUtil.edit(content, eol, [index], value): value = undefined deletes the
\* array element at index; otherwise value is inserted at index, and appended
\* when index is -1 (or past the end).  The text keeps its own line endings.
editRemove(content, index) ==
  LET rs == content[1].recs
  IN  Doc(content[1].eol,
          [i \in 1..(Len(rs) - 1) |-> IF i <= index THEN rs[i] ELSE rs[i + 1]])

editInsert(content, index, value) ==
  LET rs == content[1].recs
      at == IF index = -1 \/ index > Len(rs) THEN Len(rs) ELSE index
  IN  Doc(content[1].eol,
          [i \in 1..(Len(rs) + 1) |->
             IF i <= at THEN rs[i] ELSE IF i = at + 1 THEN value ELSE rs[i - 1]])

(***************************************************************************)
(* Equality predicates.                                                    *)
(***************************************************************************)
\* ContextKeyExpr.deserialize: null (here {}) for an absent guard, otherwise the
\* normalised expression, in which the order of the conjuncts is immaterial.
NullExpr == [isNull |-> TRUE, atoms |-> {}]

Deserialize(when) ==
  IF when = <<>> THEN NullExpr ELSE [isNull |-> FALSE, atoms |-> Range(when)]

ExprEquals(a, b) == a.atoms = b.atoms

\* objects.equals on args.
ObjectsEquals(a, b) == a = b

\* Mutant: an absent guard matches any guard.
isSameKeybinding_AbsentMatchesAny(a, b) ==
  IF a.command # b.command THEN FALSE
  ELSE IF a.key # b.key THEN FALSE
  ELSE IF /\ ~Deserialize(a.when).isNull /\ ~Deserialize(b.when).isNull
          /\ ~ExprEquals(Deserialize(a.when), Deserialize(b.when)) THEN FALSE
  ELSE IF ~ObjectsEquals(a.args, b.args) THEN FALSE
  ELSE TRUE

\* Mutant: the when guards are not compared.
isSameKeybinding_IgnoresWhen(a, b) ==
  IF a.command # b.command THEN FALSE
  ELSE IF a.key # b.key THEN FALSE
  ELSE IF ~ObjectsEquals(a.args, b.args) THEN FALSE
  ELSE TRUE

isSameKeybinding(a, b) ==
  LET whenA == Deserialize(a.when)
      whenB == Deserialize(b.when)
  IN  IF a.command # b.command THEN FALSE
      ELSE IF a.key # b.key THEN FALSE
      ELSE IF (~whenA.isNull /\ whenB.isNull) \/ (whenA.isNull /\ ~whenB.isNull)
        THEN FALSE
      ELSE IF ~whenA.isNull /\ ~whenB.isNull /\ ~ExprEquals(whenA, whenB) THEN FALSE
      ELSE IF ~ObjectsEquals(a.args, b.args) THEN FALSE
      ELSE TRUE

\* arrays.equals(one, other, (a, b) => isSameKeybinding(a, b)).
equals(one, other) ==
  /\ Len(one) = Len(other)
  /\ \A i \in 1..Len(one) : isSameKeybinding(one[i], other[i])

\* Mutant: only the entries adding keybindings are compared.
areSameKeybindingsWithSameCommand_OnlyAdding(value1, value2) ==
  equals(SelectSeq(value1, LAMBDA r : ~StartsWithDash(r.command)),
         SelectSeq(value2, LAMBDA r : ~StartsWithDash(r.command)))

\* Mutant: the two lists are compared whole, bindings and unbindings together.
areSameKeybindingsWithSameCommand_Whole(value1, value2) == equals(value1, value2)

areSameKeybindingsWithSameCommand(value1, value2) ==
  IF ~equals(SelectSeq(value1, LAMBDA r : ~StartsWithDash(r.command)),
             SelectSeq(value2, LAMBDA r : ~StartsWithDash(r.command)))
    THEN FALSE
  ELSE IF ~equals(SelectSeq(value1, LAMBDA r : StartsWithDash(r.command)),
                  SelectSeq(value2, LAMBDA r : StartsWithDash(r.command)))
    THEN FALSE
  ELSE TRUE

(***************************************************************************)
(* Record grouping.                                                        *)
(***************************************************************************)
\* The Map built by the loop "get the group of the key, create it when
\* missing, push": keys in order of first occurrence, each group in
\* document order.
byKeybinding(keybindings, keys) ==
  LET ks == [i \in 1..Len(keybindings) |-> keys[keybindings[i].key]]
  IN  [order |-> AddAll(<<>>, ks),
       get   |-> [k \in Range(ks) |->
                    SelectSeq(keybindings, LAMBDA r : keys[r.key] = k)]]

CommandOf(keybinding) ==
  IF StartsWithDash(keybinding.command) THEN Substring1(keybinding.command)
  ELSE keybinding.command

byCommand(keybindings) ==
  LET ks == [i \in 1..Len(keybindings) |-> CommandOf(keybindings[i])]
  IN  [order |-> AddAll(<<>>, ks),
       get   |-> [k \in Range(ks) |->
                    SelectSeq(keybindings, LAMBDA r : CommandOf(r) = k)]]

(***************************************************************************)
(* Compare.                                                                *)
(***************************************************************************)
WithKey(keybinding, key) == [keybinding EXCEPT !.key = key]

\* Mutant: the records are compared with their raw keys, without rewriting
\* the key field to the grouping key.
compareByKeybinding_RawKeys(from, to) ==
  LET fromKeys == from.order
      toKeys   == to.order
      removed  == SelectSeq(fromKeys, LAMBDA k : ~Has(toKeys, k))
  IN  [added   |-> SelectSeq(toKeys, LAMBDA k : ~Has(fromKeys, k)),
       removed |-> removed,
       updated |-> SelectSeq(fromKeys, LAMBDA k :
                     /\ ~Has(removed, k)
                     /\ ~equals(from.get[k], to.get[k]))]

\* Mutant: the two groups of a key are compared without regard to order.
compareByKeybinding_Unordered(from, to) ==
  LET fromKeys == from.order
      toKeys   == to.order
      removed  == SelectSeq(fromKeys, LAMBDA k : ~Has(toKeys, k))
      member(r, group, key) ==
        \E i \in 1..Len(group) : isSameKeybinding(WithKey(r, key), WithKey(group[i], key))
      differs(key) ==
        \/ Len(from.get[key]) # Len(to.get[key])
        \/ \E i \in 1..Len(from.get[key]) : ~member(from.get[key][i], to.get[key], key)
  IN  [added   |-> SelectSeq(toKeys, LAMBDA k : ~Has(fromKeys, k)),
       removed |-> removed,
       updated |-> SelectSeq(fromKeys, LAMBDA k : ~Has(removed, k) /\ differs(k))]

\* Mutant: the added and the removed keys are exchanged.
compareByKeybinding_Exchanged(from, to) ==
  LET fromKeys == from.order
      toKeys   == to.order
      added    == SelectSeq(fromKeys, LAMBDA k : ~Has(toKeys, k))
      removed  == SelectSeq(toKeys, LAMBDA k : ~Has(fromKeys, k))
      differs(key) ==
        LET value1 == [i \in 1..Len(from.get[key]) |-> WithKey(from.get[key][i], key)]
            value2 == [i \in 1..Len(to.get[key]) |-> WithKey(to.get[key][i], key)]
        IN  ~equals(value1, value2)
  IN  [added   |-> added,
       removed |-> removed,
       updated |-> SelectSeq(fromKeys, LAMBDA k : Has(toKeys, k) /\ differs(k))]

compareByKeybinding(from, to) ==
  LET fromKeys == from.order
      toKeys   == to.order
      added    == SelectSeq(toKeys, LAMBDA k : ~Has(fromKeys, k))
      removed  == SelectSeq(fromKeys, LAMBDA k : ~Has(toKeys, k))
      differs(key) ==
        LET value1 == [i \in 1..Len(from.get[key]) |-> WithKey(from.get[key][i], key)]
            value2 == [i \in 1..Len(to.get[key]) |-> WithKey(to.get[key][i], key)]
        IN  ~equals(value1, value2)
  IN  [added   |-> added,
       removed |-> removed,
       updated |-> SelectSeq(fromKeys, LAMBDA k : ~Has(removed, k) /\ differs(k))]

\* Mutant: the records of a command are compared with their raw keys.
compareByCommand_RawKeys(from, to, nk) ==
  LET fromKeys == from.order
      toKeys   == to.order
      removed  == SelectSeq(fromKeys, LAMBDA k : ~Has(toKeys, k))
  IN  [added   |-> SelectSeq(toKeys, LAMBDA k : ~Has(fromKeys, k)),
       removed |-> removed,
       updated |-> SelectSeq(fromKeys, LAMBDA k :
                     /\ ~Has(removed, k)
                     /\ ~areSameKeybindingsWithSameCommand(from.get[k], to.get[k]))]

compareByCommand(from, to, nk) ==
  LET fromKeys == from.order
      toKeys   == to.order
      added    == SelectSeq(toKeys, LAMBDA k : ~Has(fromKeys, k))
      removed  == SelectSeq(fromKeys, LAMBDA k : ~Has(toKeys, k))
      differs(key) ==
        LET value1 == [i \in 1..Len(from.get[key]) |->
                         WithKey(from.get[key][i], nk[from.get[key][i].key])]
            value2 == [i \in 1..Len(to.get[key]) |->
                         WithKey(to.get[key][i], nk[to.get[key][i].key])]
        IN  ~areSameKeybindingsWithSameCommand(value1, value2)
  IN  [added   |-> added,
       removed |-> removed,
       updated |-> SelectSeq(fromKeys, LAMBDA k : ~Has(removed, k) /\ differs(k))]

\* The compare result used in place of compare(base, side) when there is no base.
\* Mutant: with no base, the keys of the side count as updated.
AllAdded_AsUpdated(side) ==
  [added |-> <<>>, removed |-> <<>>, updated |-> side.order]

AllAdded(side) == [added |-> side.order, removed |-> <<>>, updated |-> <<>>]

\* Mutant: the emptiness test forgets the updated set.
IsEmptyCompare_IgnoresUpdated(c) == Len(c.added) = 0 /\ Len(c.removed) = 0

IsEmptyCompare(c) == Len(c.added) = 0 /\ Len(c.removed) = 0 /\ Len(c.updated) = 0

(***************************************************************************)
(* Merge resolution.                                                       *)
(***************************************************************************)
EmptyMerge == [added |-> <<>>, removed |-> <<>>, updated |-> <<>>, conflicts |-> <<>>]

\* The six loops of computeMergeResult, each on the sets built so far.  The
\* keys of one loop are distinct, so what a loop adds to conflicts never
\* changes its own "conflicts.has(key)" test for a later key.
\* Mutant: a key removed in local and not updated in remote is put in removed.
RemovedInLocal_Records(acc, baseToLocal, baseToRemote) ==
  [acc EXCEPT
     !.conflicts = AddAll(@, SelectSeq(baseToLocal.removed,
                                       LAMBDA k : Has(baseToRemote.updated, k))),
     !.removed = AddAll(@, SelectSeq(baseToLocal.removed,
                                     LAMBDA k : ~Has(baseToRemote.updated, k)))]

\* Mutant: a key removed in local is never a conflict.
RemovedInLocal_NoConflict(acc, baseToLocal, baseToRemote) == acc

\* "Removed keys in Local"
RemovedInLocal(acc, baseToLocal, baseToRemote) ==
  [acc EXCEPT !.conflicts =
     AddAll(@, SelectSeq(baseToLocal.removed, LAMBDA k : Has(baseToRemote.updated, k)))]

\* Mutant: a key removed in remote is removed even when local updated it.
RemovedInRemote_DeletionWins(acc, baseToLocal, baseToRemote) ==
  [acc EXCEPT !.removed =
     AddAll(@, SelectSeq(baseToRemote.removed, LAMBDA k : ~Has(acc.conflicts, k)))]

\* "Removed keys in Remote"
RemovedInRemote(acc, baseToLocal, baseToRemote) ==
  LET ks == SelectSeq(baseToRemote.removed, LAMBDA k : ~Has(acc.conflicts, k))
  IN  [acc EXCEPT
         !.conflicts = AddAll(@, SelectSeq(ks, LAMBDA k : Has(baseToLocal.updated, k))),
         !.removed = AddAll(@, SelectSeq(ks, LAMBDA k : ~Has(baseToLocal.updated, k)))]

\* Mutant: a key added on both sides is a conflict even when both sides
\* added the same value.
AddedInLocal_AlwaysConflicts(acc, localToRemote, baseToLocal, baseToRemote) ==
  LET ks == SelectSeq(baseToLocal.added, LAMBDA k : ~Has(acc.conflicts, k))
  IN  [acc EXCEPT !.conflicts =
         AddAll(@, SelectSeq(ks, LAMBDA k : Has(baseToRemote.added, k)))]

\* "Added keys in Local"
AddedInLocal(acc, localToRemote, baseToLocal, baseToRemote) ==
  LET ks == SelectSeq(baseToLocal.added, LAMBDA k : ~Has(acc.conflicts, k))
  IN  [acc EXCEPT !.conflicts =
         AddAll(@, SelectSeq(ks, LAMBDA k : /\ Has(baseToRemote.added, k)
                                            /\ Has(localToRemote.updated, k)))]

\* "Added keys in remote"
AddedInRemote(acc, localToRemote, baseToLocal, baseToRemote) ==
  LET ks == SelectSeq(baseToRemote.added, LAMBDA k : ~Has(acc.conflicts, k))
  IN  [acc EXCEPT
         !.conflicts = AddAll(@, SelectSeq(ks, LAMBDA k : /\ Has(baseToLocal.added, k)
                                                          /\ Has(localToRemote.updated, k))),
         !.added = AddAll(@, SelectSeq(ks, LAMBDA k : ~Has(baseToLocal.added, k)))]

\* "Updated keys in Local"
UpdatedInLocal(acc, localToRemote, baseToLocal, baseToRemote) ==
  LET ks == SelectSeq(baseToLocal.updated, LAMBDA k : ~Has(acc.conflicts, k))
  IN  [acc EXCEPT !.conflicts =
         AddAll(@, SelectSeq(ks, LAMBDA k : /\ Has(baseToRemote.updated, k)
                                            /\ Has(localToRemote.updated, k)))]

\* Mutant: the loop does not skip the keys that are already conflicts.
UpdatedInRemote_NoSkip(acc, localToRemote, baseToLocal, baseToRemote) ==
  [acc EXCEPT
     !.conflicts = AddAll(@, SelectSeq(baseToRemote.updated,
                                       LAMBDA k : /\ Has(baseToLocal.updated, k)
                                                  /\ Has(localToRemote.updated, k))),
     !.updated = AddAll(@, SelectSeq(baseToRemote.updated,
                                     LAMBDA k : ~Has(baseToLocal.updated, k)))]

\* "Updated keys in Remote"
UpdatedInRemote(acc, localToRemote, baseToLocal, baseToRemote) ==
  LET ks == SelectSeq(baseToRemote.updated, LAMBDA k : ~Has(acc.conflicts, k))
  IN  [acc EXCEPT
         !.conflicts = AddAll(@, SelectSeq(ks, LAMBDA k : /\ Has(baseToLocal.updated, k)
                                                          /\ Has(localToRemote.updated, k))),
         !.updated = AddAll(@, SelectSeq(ks, LAMBDA k : ~Has(baseToLocal.updated, k)))]

computeMergeResult(localToRemote, baseToLocal, baseToRemote) ==
  LET a1 == RemovedInLocal(EmptyMerge, baseToLocal, baseToRemote)
      a2 == RemovedInRemote(a1, baseToLocal, baseToRemote)
      a3 == AddedInLocal(a2, localToRemote, baseToLocal, baseToRemote)
      a4 == AddedInRemote(a3, localToRemote, baseToLocal, baseToRemote)
      a5 == UpdatedInLocal(a4, localToRemote, baseToLocal, baseToRemote)
  IN  UpdatedInRemote(a5, localToRemote, baseToLocal, baseToRemote)

MergeResult(lf, rf, m) ==
  [hasLocalForwarded |-> lf, hasRemoteForwarded |-> rf,
   added |-> m.added, removed |-> m.removed, updated |-> m.updated,
   conflicts |-> m.conflicts]

\* Mutant: the both-forwarded return hands back the shared empty sets too.
computeMergeResultByKeybinding_EmptySets(local, remote, base, nk) ==
  LET cmp == [localToRemote |->
                compareByKeybinding(byKeybinding(local, nk), byKeybinding(remote, nk)),
              baseToLocal |->
                IF base # <<>>
                  THEN compareByKeybinding(byKeybinding(base[1], nk),
                                           byKeybinding(local, nk))
                  ELSE AllAdded(byKeybinding(local, nk)),
              baseToRemote |->
                IF base # <<>>
                  THEN compareByKeybinding(byKeybinding(base[1], nk),
                                           byKeybinding(remote, nk))
                  ELSE AllAdded(byKeybinding(remote, nk))]
  IN  IF IsEmptyCompare(cmp.localToRemote) THEN MergeResult(FALSE, FALSE, EmptyMerge)
      ELSE IF IsEmptyCompare(cmp.baseToLocal) THEN MergeResult(FALSE, TRUE, EmptyMerge)
      ELSE IF IsEmptyCompare(cmp.baseToRemote) THEN MergeResult(TRUE, FALSE, EmptyMerge)
      ELSE MergeResult(TRUE, TRUE, EmptyMerge)

\* base is <<>> when there is no base snapshot, <<records>> otherwise.
computeMergeResultByKeybinding(local, remote, base, nk) ==
  LET localByKeybinding  == byKeybinding(local, nk)
      remoteByKeybinding == byKeybinding(remote, nk)
      localToRemoteByKeybinding ==
        compareByKeybinding(localByKeybinding, remoteByKeybinding)
      baseToLocalByKeybinding ==
        IF base # <<>>
          THEN compareByKeybinding(byKeybinding(base[1], nk), localByKeybinding)
          ELSE AllAdded(localByKeybinding)
      baseToRemoteByKeybinding ==
        IF base # <<>>
          THEN compareByKeybinding(byKeybinding(base[1], nk), remoteByKeybinding)
          ELSE AllAdded(remoteByKeybinding)
  IN  IF IsEmptyCompare(localToRemoteByKeybinding)
        THEN MergeResult(FALSE, FALSE, EmptyMerge)
      ELSE IF IsEmptyCompare(baseToLocalByKeybinding)
        THEN MergeResult(FALSE, TRUE, EmptyMerge)
      ELSE IF IsEmptyCompare(baseToRemoteByKeybinding)
        THEN MergeResult(TRUE, FALSE, EmptyMerge)
      ELSE MergeResult(TRUE, TRUE,
             computeMergeResult(localToRemoteByKeybinding,
                                baseToLocalByKeybinding,
                                baseToRemoteByKeybinding))

\* The three compares of computeMergeResultByKeybinding, each as the code
\* would compute it.
KeybindingCompares(local, remote, base, nk) ==
  LET localByKeybinding  == byKeybinding(local, nk)
      remoteByKeybinding == byKeybinding(remote, nk)
  IN  [localToRemote |-> compareByKeybinding(localByKeybinding, remoteByKeybinding),
       baseToLocal   |-> IF base # <<>>
                           THEN compareByKeybinding(byKeybinding(base[1], nk),
                                                    localByKeybinding)
                           ELSE AllAdded(localByKeybinding),
       baseToRemote  |-> IF base # <<>>
                           THEN compareByKeybinding(byKeybinding(base[1], nk),
                                                    remoteByKeybinding)
                           ELSE AllAdded(remoteByKeybinding)]

(***************************************************************************)
(* Content rewriter.                                                       *)
(***************************************************************************)
\* Mutant: the records are inserted at the head of the array.
RECURSIVE addKeybindings_AtHead(_, _)
addKeybindings_AtHead(content, keybindings) ==
  IF keybindings = <<>> THEN content
  ELSE addKeybindings_AtHead(editInsert(content, 0, Head(keybindings)),
                             Tail(keybindings))

RECURSIVE addKeybindings(_, _)
addKeybindings(content, keybindings) ==
  IF keybindings = <<>> THEN content
  ELSE addKeybindings(editInsert(content, -1, Head(keybindings)), Tail(keybindings))

\* Mutant: only the records whose command is the command itself match.
IsOfCommand_Exact(keybinding, command) == keybinding.command = command

IsOfCommand(keybinding, command) ==
  keybinding.command = command \/ keybinding.command = Negated(command)

\* The descending loop "for index = length - 1 .. 0": the indices are those of
\* the one parse made before the loop, the edits apply to the current text.
RECURSIVE RemoveFrom(_, _, _, _)
RemoveFrom(content, keybindings, command, index) ==
  IF index < 0 THEN content
  ELSE RemoveFrom(IF IsOfCommand(keybindings[index + 1], command)
                    THEN editRemove(content, index) ELSE content,
                  keybindings, command, index - 1)

removeKeybindings(content, command) ==
  LET keybindings == parse(content)
  IN  RemoveFrom(content, keybindings, command, Len(keybindings) - 1)

\* findFirstIndex(allKeybindings, keybinding => keybinding.command === command
\* || keybinding.command === `-${command}`): a 0-based index, -1 when none.
RECURSIVE FirstOfCommandFrom(_, _, _)
FirstOfCommandFrom(allKeybindings, command, i) ==
  IF i > Len(allKeybindings) THEN -1
  ELSE IF IsOfCommand(allKeybindings[i], command) THEN i - 1
  ELSE FirstOfCommandFrom(allKeybindings, command, i + 1)

RECURSIVE InsertFrom(_, _, _, _)
InsertFrom(content, keybindings, location, index) ==
  IF index < 0 THEN content
  ELSE InsertFrom(editInsert(content, location, keybindings[index + 1]),
                  keybindings, location, index - 1)

updateKeybindings(content, command, keybindings) ==
  LET allKeybindings == parse(content)
      location == FirstOfCommandFrom(allKeybindings, command, 1)
      removed  == RemoveFrom(content, allKeybindings, command, Len(allKeybindings) - 1)
  IN  InsertFrom(removed, keybindings, location, Len(keybindings) - 1)

(***************************************************************************)
(* merge.                                                                  *)
(***************************************************************************)
\* Mutant: the unbinding records of the command count too.
UsesConflictingKey_CountsNegated(keybindings, command, keybindingConflicts, nk) ==
  \E i \in 1..Len(keybindings) : Has(keybindingConflicts, nk[keybindings[i].key])

\* keybindings.some(keybinding => keybinding.command !== `-${command}` &&
\*   keybindingsMergeResult.conflicts.has(normalizedKeys[keybinding.key]))
UsesConflictingKey(keybindings, command, keybindingConflicts, nk) ==
  \E i \in 1..Len(keybindings) :
     /\ keybindings[i].command # Negated(command)
     /\ Has(keybindingConflicts, nk[keybindings[i].key])

\* The loop state of merge: the text so far and commandsMergeResult.conflicts.
\* "Removed commands in Remote"
RECURSIVE RemovedLoop(_, _)
RemovedLoop(st, commands) ==
  IF commands = <<>> THEN st
  ELSE LET command == Head(commands)
       IN  RemovedLoop(
             IF Has(st.conflicts, command) THEN st
             ELSE [st EXCEPT !.content = removeKeybindings(st.content, command)],
             Tail(commands))

\* Mutant: the loop applies every added command that is not yet a conflict.
RECURSIVE AddedLoop_NeverEscalates(_, _, _, _, _)
AddedLoop_NeverEscalates(st, commands, remoteByCommand, keybindingConflicts, nk) ==
  IF commands = <<>> THEN st
  ELSE AddedLoop_NeverEscalates(
         IF Has(st.conflicts, Head(commands)) THEN st
         ELSE [st EXCEPT !.content =
                  addKeybindings(st.content, remoteByCommand.get[Head(commands)])],
         Tail(commands), remoteByCommand, keybindingConflicts, nk)

\* "Added commands in remote"
RECURSIVE AddedLoop(_, _, _, _, _)
AddedLoop(st, commands, remoteByCommand, keybindingConflicts, nk) ==
  IF commands = <<>> THEN st
  ELSE LET command == Head(commands)
           keybindings == remoteByCommand.get[command]
       IN  AddedLoop(
             IF Has(st.conflicts, command) THEN st
             ELSE IF UsesConflictingKey(keybindings, command, keybindingConflicts, nk)
               THEN [st EXCEPT !.conflicts = AddAll(st.conflicts, <<command>>)]
             ELSE [st EXCEPT !.content = addKeybindings(st.content, keybindings)],
             Tail(commands), remoteByCommand, keybindingConflicts, nk)

\* "Updated commands in Remote"
RECURSIVE UpdatedLoop(_, _, _, _, _)
UpdatedLoop(st, commands, remoteByCommand, keybindingConflicts, nk) ==
  IF commands = <<>> THEN st
  ELSE LET command == Head(commands)
           keybindings == remoteByCommand.get[command]
       IN  UpdatedLoop(
             IF Has(st.conflicts, command) THEN st
             ELSE IF UsesConflictingKey(keybindings, command, keybindingConflicts, nk)
               THEN [st EXCEPT !.conflicts = AddAll(st.conflicts, <<command>>)]
             ELSE [st EXCEPT !.content =
                      updateKeybindings(st.content, command, keybindings)],
             Tail(commands), remoteByCommand, keybindingConflicts, nk)

\* The values of "location" in the calls of updateKeybindings the loop over
\* the updated commands makes, in order.
RECURSIVE UpdatedLocations(_, _, _, _, _)
UpdatedLocations(st, commands, remoteByCommand, keybindingConflicts, nk) ==
  IF commands = <<>> THEN <<>>
  ELSE LET command == Head(commands)
           keybindings == remoteByCommand.get[command]
           applied == /\ ~Has(st.conflicts, command)
                      /\ ~UsesConflictingKey(keybindings, command, keybindingConflicts, nk)
       IN  (IF applied
              THEN <<FirstOfCommandFrom(parse(st.content), command, 1)>>
              ELSE <<>>)
           \o UpdatedLocations(UpdatedLoop(st, <<command>>, remoteByCommand,
                                           keybindingConflicts, nk),
                               Tail(commands), remoteByCommand, keybindingConflicts, nk)

\* The calls of removeKeybindings the loop over the removed commands makes, in
\* order: the command, the text passed and the text returned.
RECURSIVE RemovedSteps(_, _)
RemovedSteps(st, commands) ==
  IF commands = <<>> THEN <<>>
  ELSE LET command == Head(commands)
           next == RemovedLoop(st, <<command>>)
       IN  (IF ~Has(st.conflicts, command)
              THEN <<[command |-> command, before |-> st.content,
                      after |-> next.content]>>
              ELSE <<>>)
           \o RemovedSteps(next, Tail(commands))

\* The calls of updateKeybindings the loop over the updated commands makes, in
\* order: the command, the text passed and the text returned.
RECURSIVE UpdatedSteps(_, _, _, _, _)
UpdatedSteps(st, commands, remoteByCommand, keybindingConflicts, nk) ==
  IF commands = <<>> THEN <<>>
  ELSE LET command == Head(commands)
           keybindings == remoteByCommand.get[command]
           applied == /\ ~Has(st.conflicts, command)
                      /\ ~UsesConflictingKey(keybindings, command, keybindingConflicts, nk)
           next == UpdatedLoop(st, <<command>>, remoteByCommand, keybindingConflicts, nk)
       IN  (IF applied
              THEN <<[command |-> command, before |-> st.content,
                      after |-> next.content]>>
              ELSE <<>>)
           \o UpdatedSteps(next, Tail(commands), remoteByCommand, keybindingConflicts, nk)

\* Mutant: the two sides of the block are exchanged.
ConflictBlock_SidesExchanged(mergeContent, remote, eol) ==
  <<Lit("<<<<<<< local"), Lit(eol)>> \o remote
    \o <<Lit(eol), Lit("======="), Lit(eol)>> \o mergeContent
    \o <<Lit(eol), Lit(">>>>>>> remote")>>

\* The conflict block of merge.
ConflictBlock(mergeContent, remote, eol) ==
  <<Lit("<<<<<<< local"), Lit(eol)>> \o mergeContent
    \o <<Lit(eol), Lit("======="), Lit(eol)>> \o remote
    \o <<Lit(eol), Lit(">>>>>>> remote")>>

\* The command-level compare results of the both-forwarded path.
CommandCompares(local, remote, base, nk) ==
  LET localByCommand  == byCommand(local)
      remoteByCommand == byCommand(remote)
  IN  [localToRemote |-> compareByCommand(localByCommand, remoteByCommand, nk),
       baseToLocal   |-> IF base # <<>>
                           THEN compareByCommand(byCommand(base[1]), localByCommand, nk)
                           ELSE AllAdded(localByCommand),
       baseToRemote  |-> IF base # <<>>
                           THEN compareByCommand(byCommand(base[1]), remoteByCommand, nk)
                           ELSE AllAdded(remoteByCommand)]

Outcome(mergeContent, hasChanges, hasConflicts) ==
  [mergeContent |-> mergeContent, hasChanges |-> hasChanges,
   hasConflicts |-> hasConflicts]

\* The locals of merge when it returns: the binding-level result, the
\* command-level result as computed, commandsMergeResult.conflicts and the
\* text after the three loops, and (outcome) the value returned.
Locals(kmr, cmr, conflicts, content, outcome) ==
  [keybindingsMergeResult |-> kmr, commandsMergeResult |-> cmr,
   conflicts |-> conflicts, content |-> content, outcome |-> outcome]

\* Mutant: hasConflicts is taken from the conflicts computeMergeResult found,
\* before the loops add to them.
mergeCommands_StaleConflicts(lc, rc, local, remote, base, keybindingsMergeResult, nk) ==
  LET remoteByCommand == byCommand(remote)
      cmp == CommandCompares(local, remote, base, nk)
      commandsMergeResult ==
        computeMergeResult(cmp.localToRemote, cmp.baseToLocal, cmp.baseToRemote)
      s0 == [content |-> lc, conflicts |-> commandsMergeResult.conflicts]
      s1 == RemovedLoop(s0, commandsMergeResult.removed)
      s2 == AddedLoop(s1, commandsMergeResult.added, remoteByCommand,
                      keybindingsMergeResult.conflicts, nk)
      s3 == UpdatedLoop(s2, commandsMergeResult.updated, remoteByCommand,
                        keybindingsMergeResult.conflicts, nk)
      hasConflicts == Len(commandsMergeResult.conflicts) > 0
  IN  Locals(keybindingsMergeResult, commandsMergeResult, s3.conflicts, s3.content,
             Outcome(IF hasConflicts THEN ConflictBlock(s3.content, rc, getEol(lc))
                     ELSE s3.content,
                     TRUE, hasConflicts))

\* "Both local and remote has moved forward": the command-level merge, the
\* three loops on the local text and the conflict block.
mergeCommands(lc, rc, local, remote, base, keybindingsMergeResult, nk) ==
  LET remoteByCommand == byCommand(remote)
      cmp == CommandCompares(local, remote, base, nk)
      commandsMergeResult ==
        computeMergeResult(cmp.localToRemote, cmp.baseToLocal, cmp.baseToRemote)
      eol == getEol(lc)
      s0 == [content |-> lc, conflicts |-> commandsMergeResult.conflicts]
      s1 == RemovedLoop(s0, commandsMergeResult.removed)
      s2 == AddedLoop(s1, commandsMergeResult.added, remoteByCommand,
                      keybindingsMergeResult.conflicts, nk)
      s3 == UpdatedLoop(s2, commandsMergeResult.updated, remoteByCommand,
                        keybindingsMergeResult.conflicts, nk)
      hasConflicts == Len(s3.conflicts) > 0
  IN  Locals(keybindingsMergeResult, commandsMergeResult, s3.conflicts, s3.content,
             Outcome(IF hasConflicts THEN ConflictBlock(s3.content, rc, eol)
                     ELSE s3.content,
                     TRUE, hasConflicts))

\* Mutant: the "local has moved forward and remote has not" return hands back
\* the remote text.
merge_ReturnsRemoteForLocal(lc, rc, bc, nk) ==
  LET local  == parse(lc)
      remote == parse(rc)
      base   == IF bc # <<>> THEN <<parse(bc)>> ELSE <<>>
      keybindingsMergeResult == computeMergeResultByKeybinding(local, remote, base, nk)
  IN  IF ~keybindingsMergeResult.hasLocalForwarded
         /\ ~keybindingsMergeResult.hasRemoteForwarded
        THEN Locals(keybindingsMergeResult, EmptyMerge, <<>>, lc,
                    Outcome(lc, FALSE, FALSE))
      ELSE IF ~keybindingsMergeResult.hasRemoteForwarded
              \/ ~keybindingsMergeResult.hasLocalForwarded
        THEN Locals(keybindingsMergeResult, EmptyMerge, <<>>, lc,
                    Outcome(rc, TRUE, FALSE))
      ELSE mergeCommands(lc, rc, local, remote, base, keybindingsMergeResult, nk)

\* Mutant: the keys of the parsed records are rewritten in place, so the
\* records written to the text carry the canonical spelling.
merge_RewritesKeysInPlace(lc, rc, bc, nk) ==
  LET local  == [i \in 1..Len(parse(lc)) |-> WithKey(parse(lc)[i], nk[parse(lc)[i].key])]
      remote == [i \in 1..Len(parse(rc)) |-> WithKey(parse(rc)[i], nk[parse(rc)[i].key])]
      base   == IF bc # <<>> THEN <<parse(bc)>> ELSE <<>>
      keybindingsMergeResult == computeMergeResultByKeybinding(local, remote, base, nk)
  IN  IF ~keybindingsMergeResult.hasLocalForwarded
         /\ ~keybindingsMergeResult.hasRemoteForwarded
        THEN Locals(keybindingsMergeResult, EmptyMerge, <<>>, lc,
                    Outcome(lc, FALSE, FALSE))
      ELSE IF ~keybindingsMergeResult.hasLocalForwarded
        THEN Locals(keybindingsMergeResult, EmptyMerge, <<>>, lc,
                    Outcome(rc, TRUE, FALSE))
      ELSE IF ~keybindingsMergeResult.hasRemoteForwarded
        THEN Locals(keybindingsMergeResult, EmptyMerge, <<>>, lc,
                    Outcome(lc, TRUE, FALSE))
      ELSE mergeCommands(lc, rc, local, remote, base, keybindingsMergeResult, nk)

\* merge(localContent, remoteContent, baseContent, normalizedKeys), with its
\* locals.  A null (or empty) baseContent is the empty text.
merge(lc, rc, bc, nk) ==
  LET local  == parse(lc)
      remote == parse(rc)
      base   == IF bc # <<>> THEN <<parse(bc)>> ELSE <<>>
      keybindingsMergeResult == computeMergeResultByKeybinding(local, remote, base, nk)
  IN  IF ~keybindingsMergeResult.hasLocalForwarded
         /\ ~keybindingsMergeResult.hasRemoteForwarded
        THEN Locals(keybindingsMergeResult, EmptyMerge, <<>>, lc,
                    Outcome(lc, FALSE, FALSE))
      ELSE IF ~keybindingsMergeResult.hasLocalForwarded
              /\ keybindingsMergeResult.hasRemoteForwarded
        THEN Locals(keybindingsMergeResult, EmptyMerge, <<>>, lc,
                    Outcome(rc, TRUE, FALSE))
      ELSE IF keybindingsMergeResult.hasLocalForwarded
              /\ ~keybindingsMergeResult.hasRemoteForwarded
        THEN Locals(keybindingsMergeResult, EmptyMerge, <<>>, lc,
                    Outcome(lc, TRUE, FALSE))
      ELSE mergeCommands(lc, rc, local, remote, base, keybindingsMergeResult, nk)

(***************************************************************************)
(* The inputs of an invocation.                                            *)
(***************************************************************************)
Binding(k, c, w, a) == [key |-> k, command |-> c, when |-> w, args |-> a]

NoWhen == <<>>

NoArgs == "undefined"

\* The caller's normalization table: "k1" and "K1" spell the same key.
KeyTable == [k \in {"k1", "K1", "k2"} |-> IF k = "k2" THEN "k2" ELSE "k1"]

\* The record sets the inputs are drawn from; the three texts of one
\* invocation are lists over the same set.
\* One binding under an absent guard and under two different expressions.
GuardBindings ==
  { Binding("k1", Cmd(0, "A"), NoWhen, NoArgs),
    Binding("k1", Cmd(0, "A"), <<"a", "b">>, NoArgs),
    Binding("k1", Cmd(0, "A"), <<"c">>, NoArgs) }

\* One binding with and without a guard, and a second command on another key.
EditBindings ==
  { Binding("k1", Cmd(0, "A"), NoWhen, NoArgs),
    Binding("k1", Cmd(0, "A"), <<"c">>, NoArgs),
    Binding("k2", Cmd(0, "B"), NoWhen, NoArgs) }

\* Two spellings of one guard, and a second command on another key.
EquivalentBindings ==
  { Binding("k1", Cmd(0, "A"), <<"a", "b">>, NoArgs),
    Binding("k1", Cmd(0, "A"), <<"b", "a">>, NoArgs),
    Binding("k2", Cmd(0, "B"), NoWhen, NoArgs) }

\* Three commands, two of them on the same key.
CommandBindings ==
  { Binding("k1", Cmd(0, "A"), NoWhen, NoArgs),
    Binding("k1", Cmd(0, "B"), NoWhen, NoArgs),
    Binding("k2", Cmd(0, "C"), NoWhen, NoArgs) }

\* A binding, its unbinding, and a second command on the same key.
NegatedBindings ==
  { Binding("k1", Cmd(0, "A"), NoWhen, NoArgs),
    Binding("k1", Cmd(1, "A"), NoWhen, NoArgs),
    Binding("k1", Cmd(0, "B"), NoWhen, NoArgs) }

\* Two spellings of one key, and a second command on another key.
SpellingBindings ==
  { Binding("k1", Cmd(0, "A"), NoWhen, NoArgs),
    Binding("K1", Cmd(0, "A"), NoWhen, NoArgs),
    Binding("k2", Cmd(0, "B"), NoWhen, NoArgs) }

\* One binding with and without arguments, and the same command on another key.
ArgumentBindings ==
  { Binding("k1", Cmd(0, "A"), NoWhen, NoArgs),
    Binding("k1", Cmd(0, "A"), NoWhen, "x"),
    Binding("k2", Cmd(0, "A"), NoWhen, NoArgs) }

Universes ==
  { GuardBindings, EditBindings, EquivalentBindings, CommandBindings,
    NegatedBindings, SpellingBindings, ArgumentBindings }

SeqsUpTo(S, n) == UNION {[1..m -> S] : m \in 0..n}

Eols == {"\n", "\r\n"}

NoResult == Outcome(<<>>, FALSE, FALSE)

EmptyCompare == [added |-> <<>>, removed |-> <<>>, updated |-> <<>>]

\* Nothing compared yet.
NoCompares ==
  [byKeybinding |-> [localToRemote |-> EmptyCompare, baseToLocal |-> EmptyCompare,
                     baseToRemote |-> EmptyCompare],
   byCommand    |-> [localToRemote |-> EmptyCompare, baseToLocal |-> EmptyCompare,
                     baseToRemote |-> EmptyCompare]]

(***************************************************************************)
(* Scrollable (vs/base/common/scrollable.ts).  Numbers are integers; an    *)
(* optional field of an update is <<>> when undefined and <<v>> otherwise. *)
(* The object is the record of its fields together with the callbacks the  *)
(* scheduler still holds for it.                                           *)
(***************************************************************************)
\* The largest scroll offset a caller asks for.
MaxScroll == 2

\* The largest value of Date.now().
MaxNow == 2

\* The largest number of callbacks the scheduler holds at once.
MaxFrames == 2

\* The smoothScrollDuration the Scrollable is constructed with.
SmoothScrollDuration == 2

\* The value of an optional field, or the default when it is undefined.
OrElse(field, default) == IF field # <<>> THEN field[1] ELSE default

\* new ScrollState(...): the arguments are integers here, which `| 0` keeps.
ScrollState(width, scrollWidth, scrollLeft, height, scrollHeight, scrollTop) ==
  LET w  == IF width < 0 THEN 0 ELSE width
      l1 == IF scrollLeft + w > scrollWidth THEN scrollWidth - w ELSE scrollLeft
      l  == IF l1 < 0 THEN 0 ELSE l1
      h  == IF height < 0 THEN 0 ELSE height
      t1 == IF scrollTop + h > scrollHeight THEN scrollHeight - h ELSE scrollTop
      t  == IF t1 < 0 THEN 0 ELSE t1
  IN  [width |-> w, scrollWidth |-> scrollWidth, scrollLeft |-> l,
       height |-> h, scrollHeight |-> scrollHeight, scrollTop |-> t]

withScrollDimensions(this, update) ==
  ScrollState(OrElse(update.width, this.width),
              OrElse(update.scrollWidth, this.scrollWidth),
              this.scrollLeft,
              OrElse(update.height, this.height),
              OrElse(update.scrollHeight, this.scrollHeight),
              this.scrollTop)

withScrollPosition(this, update) ==
  ScrollState(this.width, this.scrollWidth,
              OrElse(update.scrollLeft, this.scrollLeft),
              this.height, this.scrollHeight,
              OrElse(update.scrollTop, this.scrollTop))

\* The IScrollPosition a ScrollState is read as.
Position(s) == [scrollLeft |-> s.scrollLeft, scrollTop |-> s.scrollTop]

\* An IScrollPosition passed where an INewScrollPosition is expected.
AsUpdate(p) == [scrollLeft |-> <<p.scrollLeft>>, scrollTop |-> <<p.scrollTop>>]

\* SmoothScrollingOperation.start: the operation begins at Date.now() with no
\* callback; animationFrameDisposable is 0 for null, else the callback's id.
start(from, to, duration, t) ==
  [from |-> Position(from), to |-> Position(to), duration |-> duration,
   startTime |-> t, animationFrameDisposable |-> 0]

combine(op, from, to, duration, t) == start(from, to, duration, t)

\* SmoothScrollingOperation.acceptScrollDimensions
acceptScrollDimensions(op, s) ==
  [op EXCEPT !.to = Position(withScrollPosition(s, AsUpdate(op.to)))]

\* from + (to - from) * easeOutCubic(elapsed / duration), cut to an integer
\* as `| 0` in the ScrollState constructor cuts it.
Eased(from, to, elapsed, duration) ==
  LET whole == duration * duration * duration
      rest  == (duration - elapsed) * (duration - elapsed) * (duration - elapsed)
  IN  (from * whole + (to - from) * (whole - rest)) \div whole

\* SmoothScrollingOperation.tick at time t
tick(op, t) ==
  LET elapsed == t - op.startTime
  IN  IF elapsed < op.duration
      THEN [scrollLeft |-> Eased(op.from.scrollLeft, op.to.scrollLeft, elapsed, op.duration),
            scrollTop  |-> Eased(op.from.scrollTop, op.to.scrollTop, elapsed, op.duration),
            isDone     |-> FALSE]
      ELSE [scrollLeft |-> op.to.scrollLeft, scrollTop |-> op.to.scrollTop,
            isDone     |-> TRUE]

\* The Scrollable with its fields and the scheduler's callbacks.
Object(st, op, frs, err, dis) ==
  [state |-> st, smoothScrolling |-> op, frames |-> frs, error |-> err,
   disposed |-> dis]

\* The Scrollable after its constructor.
NewScrollable == Object(ScrollState(0, 0, 0, 0, 0, 0), <<>>, {}, FALSE, FALSE)

\* _scheduleAtNextAnimationFrame: the id of the callback it registers.
NewFrame(frs) == CHOOSE f \in 1..(MaxFrames + 1) : f \notin frs

\* this._smoothScrolling.animationFrameDisposable = schedule(callback)
Scheduled(this) ==
  LET f == NewFrame(this.frames)
  IN  [this EXCEPT !.frames = @ \cup {f},
                   !.smoothScrolling = <<[@[1] EXCEPT !.animationFrameDisposable = f]>>]

\* SmoothScrollingOperation.dispose on this._smoothScrolling, and
\* this._smoothScrolling = null
Terminated(this) ==
  [this EXCEPT !.frames = @ \ {this.smoothScrolling[1].animationFrameDisposable},
               !.smoothScrolling = <<>>]

\* Scrollable.dispose; the emitter is disposed with the object.
dispose(this) ==
  LET ended == IF this.smoothScrolling # <<>> THEN Terminated(this) ELSE this
  IN  [ended EXCEPT !.disposed = TRUE]

\* What an onScroll listener does when it is called: nothing, or one call
\* back into the Scrollable.
Reaction(kind, position, dimensions) ==
  [kind |-> kind, position |-> position, dimensions |-> dimensions]

NoPosition == [scrollLeft |-> <<>>, scrollTop |-> <<>>]

NoDimensions == [width |-> <<>>, scrollWidth |-> <<>>, height |-> <<>>, scrollHeight |-> <<>>]

NoReaction == Reaction("none", NoPosition, NoDimensions)

RECURSIVE SetState(_, _, _, _)

\* Scrollable.setScrollPositionNow at time t, its listener reacting by r
setScrollPositionNow(this, update, r, t) ==
  LET newState == withScrollPosition(this.state, update)
      ended    == IF this.smoothScrolling # <<>> THEN Terminated(this) ELSE this
  IN  SetState(ended, newState, r, t)

\* Scrollable.setScrollPositionSmooth at time t
setScrollPositionSmooth(this, update, r, t) ==
  IF SmoothScrollDuration = 0
  THEN setScrollPositionNow(this, update, r, t)
  ELSE IF this.smoothScrolling # <<>>
       THEN LET op == this.smoothScrolling[1]
                combined == [scrollLeft |-> <<OrElse(update.scrollLeft, op.to.scrollLeft)>>,
                             scrollTop  |-> <<OrElse(update.scrollTop, op.to.scrollTop)>>]
                validTarget == withScrollPosition(this.state, combined)
            IN  IF /\ op.to.scrollLeft = validTarget.scrollLeft
                   /\ op.to.scrollTop = validTarget.scrollTop
                THEN this
                ELSE LET newSmoothScrolling ==
                           combine(op, this.state, validTarget, SmoothScrollDuration, t)
                     IN  Scheduled([Terminated(this) EXCEPT
                                      !.smoothScrolling = <<newSmoothScrolling>>])
       ELSE LET validTarget == withScrollPosition(this.state, update)
            IN  Scheduled([this EXCEPT !.smoothScrolling =
                             <<start(this.state, validTarget, SmoothScrollDuration, t)>>])

\* Mutant: setScrollDimensions that leaves the target of the running
\* operation as it was.
setScrollDimensions_TargetKept(this, dimensions, r, t) ==
  SetState(this, withScrollDimensions(this.state, dimensions), r, t)

\* Scrollable.setScrollDimensions
setScrollDimensions(this, dimensions, r, t) ==
  LET newState == withScrollDimensions(this.state, dimensions)
      set      == SetState(this, newState, r, t)
  IN  IF set.smoothScrolling # <<>>
      THEN [set EXCEPT !.smoothScrolling =
              <<acceptScrollDimensions(set.smoothScrolling[1], set.state)>>]
      ELSE set

\* Emitter.fire: the listener's call, made while the handler that changed
\* the state is still running; a disposed emitter has no listener.  The
\* listener does not react to the event its own call fires.
Fired(this, r, t) ==
  IF this.disposed
  THEN this
  ELSE CASE r.kind = "none" -> this
         [] r.kind = "setScrollPositionNow" ->
              setScrollPositionNow(this, r.position, NoReaction, t)
         [] r.kind = "setScrollPositionSmooth" ->
              setScrollPositionSmooth(this, r.position, NoReaction, t)
         [] r.kind = "setScrollDimensions" ->
              setScrollDimensions(this, r.dimensions, NoReaction, t)
         [] r.kind = "dispose" -> dispose(this)

\* Scrollable._setState
SetState(this, newState, r, t) ==
  IF this.state = newState
  THEN this
  ELSE Fired([this EXCEPT !.state = newState], r, t)

\* A handler ending with a TypeError.
Thrown(this) == [this EXCEPT !.error = TRUE]

\* Scrollable._performSmoothScrolling at time t.  When the operation is null
\* at the assignment that continues the animation, the engine throws either
\* before or after it evaluated the right-hand side (lhsFirst).
performSmoothScrolling(this, r, lhsFirst, t) ==
  LET update   == tick(this.smoothScrolling[1], t)
      newState == withScrollPosition(this.state, AsUpdate(update))
      set      == SetState(this, newState, r, t)
  IN  IF update.isDone
      THEN IF set.smoothScrolling = <<>> THEN Thrown(set) ELSE Terminated(set)
      ELSE IF set.smoothScrolling = <<>>
           THEN IF lhsFirst
                THEN Thrown(set)
                ELSE Thrown([set EXCEPT !.frames = @ \cup {NewFrame(set.frames)}])
           ELSE Scheduled(set)

\* The callback f that setScrollPositionSmooth and _performSmoothScrolling
\* schedule, run by the scheduler at time t.
callback(this, f, r, lhsFirst, t) ==
  LET run == [this EXCEPT !.frames = @ \ {f}]
  IN  IF run.smoothScrolling = <<>>
      THEN Thrown(run)
      ELSE performSmoothScrolling(
             [run EXCEPT !.smoothScrolling =
                <<[@[1] EXCEPT !.animationFrameDisposable = 0]>>],
             r, lhsFirst, t)

\* Scrollable.getFutureScrollPosition
getFutureScrollPosition(this) ==
  IF this.smoothScrolling # <<>> THEN this.smoothScrolling[1].to ELSE Position(this.state)

\* What the animation tick of the last step reported, and the call its
\* listener made; no tick when the last step was not a callback.
Last(ticked, isDone, reaction) ==
  [ticked |-> ticked, isDone |-> isDone, reaction |-> reaction]

NoTick == Last(FALSE, FALSE, "none")

\* The state after the constructor.
Constructed ==
  /\ state = NewScrollable.state
  /\ smoothScrolling = NewScrollable.smoothScrolling
  /\ frames = NewScrollable.frames
  /\ error = NewScrollable.error
  /\ disposed = NewScrollable.disposed
  /\ now = 0
  /\ last = NoTick

\* The state before an invocation on texts over one of the record sets Us,
\* the local text ending its lines with one of eols.
InitOver(Us, eols, maxBase) ==
  /\ \E U \in Us :
       /\ localContent \in {Doc(e, rs) : e \in eols, rs \in SeqsUpTo(U, MaxLen)}
       /\ remoteContent \in {Doc("\n", rs) : rs \in SeqsUpTo(U, MaxLen)}
       /\ baseContent \in {<<>>} \cup {Doc("\n", rs) : rs \in SeqsUpTo(U, maxBase)}
  /\ normalizedKeys = KeyTable
  /\ pc = "start"
  /\ result = NoResult
  /\ locals = Locals(MergeResult(FALSE, FALSE, EmptyMerge), EmptyMerge, <<>>, <<>>,
                     NoResult)
  /\ compared = NoCompares
  /\ Constructed

\* Every record set with "\n" in the local text, and the record set whose
\* commands conflict with "\r\n" in it as well.
Init ==
  \/ InitOver(Universes, {"\n"}, MaxBase)
  \/ InitOver({CommandBindings}, Eols, MaxBase)

\* One invocation of merge on the inputs.
Merge ==
  /\ pc = "start"
  /\ locals' = merge(localContent, remoteContent, baseContent, normalizedKeys)
  /\ result' = locals'.outcome
  /\ pc' = "done"
  /\ UNCHANGED <<localContent, remoteContent, baseContent, normalizedKeys, compared, scrollVars>>

Next == Merge

Spec == Init /\ [][Next]_vars

(***************************************************************************)
(* A caller that invokes merge a second time on the same texts and the     *)
(* same table.                                                             *)
(***************************************************************************)
\* The record sets in which the table or the by-command grouping matters.
TableUniverses == {SpellingBindings, CommandBindings, NegatedBindings}

InitTwice == InitOver(TableUniverses, {"\n"}, MaxBase)

\* The second invocation, on what the first one left of its arguments.
Reinvoke ==
  /\ pc = "done"
  /\ locals' = merge(localContent, remoteContent, baseContent, normalizedKeys)
  /\ result' = locals'.outcome
  /\ pc' = "again"
  /\ UNCHANGED <<localContent, remoteContent, baseContent, normalizedKeys, compared, scrollVars>>

NextTwice == Merge \/ Reinvoke

SpecTwice == InitTwice /\ [][NextTwice]_vars

(***************************************************************************)
(* Invocations on texts that unbind a command and unbind the unbinding:    *)
(* "-A" belongs to the command A, "--A" to the command "-A".               *)
(***************************************************************************)
UnbindingBindings ==
  { Binding("k1", Cmd(1, "A"), NoWhen, NoArgs),
    Binding("k2", Cmd(1, "A"), NoWhen, NoArgs),
    Binding("k1", Cmd(2, "A"), NoWhen, NoArgs) }

InitUnbinding == InitOver({UnbindingBindings}, {"\n"}, MaxLen)

SpecUnbinding == InitUnbinding /\ [][Next]_vars

(***************************************************************************)
(* A caller that invokes merge, and then again with the two sides          *)
(* exchanged.                                                              *)
(***************************************************************************)
\* The record sets in which one side can bind a key the other side changed.
ExchangeUniverses ==
  {CommandBindings, NegatedBindings, EditBindings, UnbindingBindings}

InitExchanged == InitOver(ExchangeUniverses, {"\n"}, MaxBase)

\* merge(remoteContent, localContent, baseContent, normalizedKeys) after
\* merge(localContent, remoteContent, baseContent, normalizedKeys).
MergeExchanged ==
  /\ pc = "done"
  /\ localContent' = remoteContent
  /\ remoteContent' = localContent
  /\ locals' = merge(remoteContent, localContent, baseContent, normalizedKeys)
  /\ result' = locals'.outcome
  /\ pc' = "exchanged"
  /\ UNCHANGED <<baseContent, normalizedKeys, compared, scrollVars>>

NextExchanged == Merge \/ MergeExchanged

SpecExchanged == InitExchanged /\ [][NextExchanged]_vars

(***************************************************************************)
(* A caller that applies the two compare functions to the three pairs of   *)
(* snapshots and then merges the texts.                                    *)
(***************************************************************************)
\* The record sets in which the two groupings order the records differently.
CompareUniverses ==
  {NegatedBindings, SpellingBindings, ArgumentBindings, UnbindingBindings}

InitCompare == InitOver(CompareUniverses, {"\n"}, MaxBase)

\* compareByKeybinding and compareByCommand on (local, remote), (base, local)
\* and (base, remote).
Compare ==
  /\ pc = "start"
  /\ LET local  == parse(localContent)
         remote == parse(remoteContent)
         base   == IF baseContent # <<>> THEN <<parse(baseContent)>> ELSE <<>>
     IN  compared' =
           [byKeybinding |-> KeybindingCompares(local, remote, base, normalizedKeys),
            byCommand    |-> CommandCompares(local, remote, base, normalizedKeys)]
  /\ pc' = "compared"
  /\ UNCHANGED <<localContent, remoteContent, baseContent, normalizedKeys, result,
                 locals, scrollVars>>

\* The invocation of merge that follows.
MergeCompared ==
  /\ pc = "compared"
  /\ locals' = merge(localContent, remoteContent, baseContent, normalizedKeys)
  /\ result' = locals'.outcome
  /\ pc' = "done"
  /\ UNCHANGED <<localContent, remoteContent, baseContent, normalizedKeys, compared, scrollVars>>

NextCompare == Compare \/ MergeCompared

SpecCompare == InitCompare /\ [][NextCompare]_vars

(***************************************************************************)
(* A Scrollable whose owner changes dimensions and positions, whose        *)
(* scheduler runs the callbacks it holds, and whose onScroll listener may  *)
(* call back into it.                                                      *)
(***************************************************************************)
keybindingVars ==
  <<localContent, remoteContent, baseContent, normalizedKeys, pc, result, locals,
    compared>>

Offsets == {<<>>} \cup {<<v>> : v \in 0..MaxScroll}

\* The positions the owner asks for.
PositionUpdates == {[scrollLeft |-> l, scrollTop |-> t] : l \in {<<>>, <<1>>}, t \in Offsets}

\* The dimensions the owner sets: a viewport of height 1 over a content of
\* any height that the offsets reach; the content has no width.
DimensionUpdates ==
  {[width |-> <<>>, scrollWidth |-> <<>>, height |-> h, scrollHeight |-> sh] :
     h \in {<<>>, <<1>>}, sh \in {<<>>} \cup {<<v>> : v \in 1..(MaxScroll + 1)}}

\* What the listener may do.
Reactions ==
  {NoReaction, Reaction("dispose", NoPosition, NoDimensions)}
  \cup {Reaction(k, [scrollLeft |-> <<>>, scrollTop |-> <<v>>], NoDimensions) :
          k \in {"setScrollPositionNow", "setScrollPositionSmooth"},
          v \in {0, MaxScroll}}
  \cup {Reaction("setScrollDimensions", NoPosition,
                 [NoDimensions EXCEPT !.scrollHeight = <<1>>])}

\* The object of the current state.
This == Object(state, smoothScrolling, frames, error, disposed)

\* A handler runs until one has thrown; the scheduler holds no more than
\* MaxFrames callbacks.
Becomes(this) ==
  /\ ~error
  /\ Cardinality(this.frames) <= MaxFrames
  /\ state' = this.state
  /\ smoothScrolling' = this.smoothScrolling
  /\ frames' = this.frames
  /\ error' = this.error
  /\ disposed' = this.disposed

\* No keybindings are merged next to the Scrollable.
InitScrollable ==
  /\ localContent = Doc("\n", <<>>)
  /\ remoteContent = Doc("\n", <<>>)
  /\ baseContent = <<>>
  /\ normalizedKeys = KeyTable
  /\ pc = "start"
  /\ result = NoResult
  /\ locals = Locals(MergeResult(FALSE, FALSE, EmptyMerge), EmptyMerge, <<>>, <<>>,
                     NoResult)
  /\ compared = NoCompares
  /\ Constructed

SetScrollDimensions ==
  /\ \E d \in DimensionUpdates, r \in Reactions :
       Becomes(setScrollDimensions(This, d, r, now))
  /\ last' = NoTick
  /\ UNCHANGED <<keybindingVars, now>>

SetScrollPositionNow ==
  /\ \E u \in PositionUpdates, r \in Reactions :
       Becomes(setScrollPositionNow(This, u, r, now))
  /\ last' = NoTick
  /\ UNCHANGED <<keybindingVars, now>>

SetScrollPositionSmooth ==
  /\ \E u \in PositionUpdates :
       Becomes(setScrollPositionSmooth(This, u, NoReaction, now))
  /\ last' = NoTick
  /\ UNCHANGED <<keybindingVars, now>>

Dispose ==
  /\ Becomes(dispose(This))
  /\ last' = NoTick
  /\ UNCHANGED <<keybindingVars, now>>

\* The scheduler runs one of the callbacks it holds.  The listener is called
\* when the tick changes the state of an object that is not disposed.
AnimationFrame ==
  /\ \E f \in frames, r \in Reactions, lhsFirst \in BOOLEAN :
       /\ Becomes(callback(This, f, r, lhsFirst, now))
       /\ IF smoothScrolling = <<>>
          THEN last' = NoTick
          ELSE LET update == tick(smoothScrolling[1], now)
                   called == /\ ~disposed
                             /\ withScrollPosition(state, AsUpdate(update)) # state
               IN  last' = Last(TRUE, update.isDone,
                                IF called THEN r.kind ELSE "none")
  /\ UNCHANGED <<keybindingVars, now>>

\* Date.now() grows.
TimePasses ==
  /\ ~error
  /\ now < MaxNow
  /\ now' = now + 1
  /\ last' = NoTick
  /\ UNCHANGED <<keybindingVars, state, smoothScrolling, frames, error, disposed>>

NextScrollable ==
  \/ SetScrollDimensions
  \/ SetScrollPositionNow
  \/ SetScrollPositionSmooth
  \/ Dispose
  \/ AnimationFrame
  \/ TimePasses

SpecScrollable == InitScrollable /\ [][NextScrollable]_vars

(***************************************************************************)
(* Vocabulary of the properties, stated on the inputs and independent of   *)
(* the operators above.                                                    *)
(***************************************************************************)
Local == parse(localContent)

Remote == parse(remoteContent)

HasBase == baseContent # <<>>

Base == IF HasBase THEN parse(baseContent) ELSE <<>>

Done == pc = "done"

CanonicalKeys == {normalizedKeys[k] : k \in DOMAIN normalizedKeys}

\* Two guards are equivalent: both absent, or both present with the same
\* conjuncts in any order.
EquivalentGuards(w1, w2) ==
  \/ w1 = <<>> /\ w2 = <<>>
  \/ w1 # <<>> /\ w2 # <<>> /\ Range(w1) = Range(w2)

\* Two records are the same binding: same command, same canonical key, same
\* arguments, equivalent guards.
SameBinding(a, b) ==
  /\ a.command = b.command
  /\ normalizedKeys[a.key] = normalizedKeys[b.key]
  /\ a.args = b.args
  /\ EquivalentGuards(a.when, b.when)

SameBindings(x, y) ==
  Len(x) = Len(y) /\ \A i \in 1..Len(x) : SameBinding(x[i], y[i])

\* The records of a canonical key, in document order.
AtKey(recs, k) == SelectSeq(recs, LAMBDA r : normalizedKeys[r.key] = k)

\* Two record lists are equal at the binding level.
BindingEqual(x, y) ==
  \A k \in CanonicalKeys : SameBindings(AtKey(x, k), AtKey(y, k))

(***************************************************************************)
(* C1.  merge returns hasChanges = false exactly when local and remote are *)
(* equal at the binding level (for every canonical key, equal ordered      *)
(* record lists); then mergeContent is localContent unchanged and          *)
(* hasConflicts is false, whatever base is.                                *)
(***************************************************************************)
C1_NoChangeIffBindingEqual ==
  Done =>
    /\ (result.hasChanges = FALSE) <=> BindingEqual(Local, Remote)
    /\ ~result.hasChanges =>
          result.mergeContent = localContent /\ ~result.hasConflicts

\* No change is reported for two different texts, with no base.
C1_Witness ==
  /\ Done
  /\ ~result.hasChanges
  /\ ~HasBase
  /\ Len(Local) = 2
  /\ Local # Remote
  /\ result.mergeContent = localContent

(***************************************************************************)
(* C2.  Pure-forward take: when base equals local at the binding level and *)
(* remote differs from local, merge returns remoteContent verbatim with    *)
(* hasChanges = true and hasConflicts = false, and makes no command-level  *)
(* merge and no edit of the text.                                          *)
(***************************************************************************)
C2_TakeRemoteVerbatim ==
  (Done /\ HasBase /\ BindingEqual(Base, Local) /\ ~BindingEqual(Local, Remote)) =>
    /\ result = Outcome(remoteContent, TRUE, FALSE)
    /\ locals.commandsMergeResult = EmptyMerge
    /\ locals.content = localContent

\* remote = local plus one added record, base = local, and the two texts
\* use different line endings.
C2_Witness ==
  /\ Done
  /\ HasBase
  /\ Base = Local
  /\ Len(Local) = 1
  /\ Len(Remote) = 2
  /\ SubSeq(Remote, 1, 1) = Local
  /\ getEol(localContent) # getEol(remoteContent)
  /\ result = Outcome(remoteContent, TRUE, FALSE)

(***************************************************************************)
(* C3.  Symmetric pure-backward: when base equals remote at the binding    *)
(* level and local differs from remote, merge returns localContent         *)
(* verbatim with hasChanges = true and hasConflicts = false.               *)
(***************************************************************************)
C3_TakeLocalVerbatim ==
  (Done /\ HasBase /\ BindingEqual(Base, Remote) /\ ~BindingEqual(Local, Remote)) =>
    /\ result = Outcome(localContent, TRUE, FALSE)
    /\ locals.content = localContent

\* local = remote plus one added record, base = remote.
C3_Witness ==
  /\ Done
  /\ HasBase
  /\ Base = Remote
  /\ Len(Remote) = 1
  /\ Len(Local) = 2
  /\ SubSeq(Local, 1, 1) = Remote
  /\ getEol(localContent) # getEol(remoteContent)
  /\ result = Outcome(localContent, TRUE, FALSE)

(***************************************************************************)
(* More vocabulary: the shape of a conflict block, the records of a        *)
(* command, a record whose guard was changed.                              *)
(***************************************************************************)
LocalMarker == Lit("<<<<<<< local")

Separator == Lit("=======")

RemoteMarker == Lit(">>>>>>> remote")

\* The text is marker, eol, one document, eol, separator, eol, one document,
\* eol, marker.
IsConflictBlock(text) ==
  /\ Len(text) = 9
  /\ text[1] = LocalMarker /\ text[5] = Separator /\ text[9] = RemoteMarker
  /\ text[3].kind = "doc" /\ text[7].kind = "doc"
  /\ \A i \in {2, 4, 6, 8} : text[i].kind = "lit" /\ text[i].s \in Eols

\* The text is one document, without any marker line.
IsDocument(text) == Len(text) = 1 /\ text[1].kind = "doc"

\* The command name a record belongs to, and the records of a command name.
NameOf(r) == IF r.command.dash > 0 THEN Cmd(r.command.dash - 1, r.command.name)
             ELSE r.command

OfCommand(recs, c) == SelectSeq(recs, LAMBDA r : NameOf(r) = c)

NotOfCommand(recs, c) == SelectSeq(recs, LAMBDA r : NameOf(r) # c)

CommandNames(recs) == {NameOf(recs[i]) : i \in 1..Len(recs)}

KeysOf(recs) == {normalizedKeys[recs[i].key] : i \in 1..Len(recs)}

\* e is b with its when guard changed to a non-equivalent guard.
GuardChanged(b, e) ==
  /\ e.command = b.command
  /\ normalizedKeys[e.key] = normalizedKeys[b.key]
  /\ e.args = b.args
  /\ ~EquivalentGuards(e.when, b.when)

\* The side no longer holds b as it was, and holds e, b with a changed guard.
ChangesGuard(side, b, e) ==
  /\ Has(side, e)
  /\ GuardChanged(b, e)
  /\ \A i \in 1..Len(side) : ~SameBinding(side[i], b)

\* The records that stand where b stands: b's command on b's canonical key.
Slot(recs, b) ==
  SelectSeq(recs, LAMBDA r : /\ r.command = b.command
                             /\ normalizedKeys[r.key] = normalizedKeys[b.key])

RecordsIn(recs) == {recs[i] : i \in 1..Len(recs)}

(***************************************************************************)
(* C4.  True conflict: base has a record b of a command, local changed b's *)
(* when guard and remote changed it to a different, non-equivalent guard   *)
(* (the records standing for b differ between local and remote).  Then     *)
(* hasChanges and hasConflicts are true and mergeContent is a conflict     *)
(* block with local's definition before the separator and remote's after.  *)
(***************************************************************************)
TrueConflict(b, l, r) ==
  /\ ChangesGuard(Local, b, l)
  /\ ChangesGuard(Remote, b, r)
  /\ ~EquivalentGuards(l.when, r.when)
  /\ ~SameBindings(Slot(Local, b), Slot(Remote, b))

C4_TrueConflict ==
  Done =>
    \A b \in RecordsIn(Base), l \in RecordsIn(Local), r \in RecordsIn(Remote) :
      TrueConflict(b, l, r) =>
        /\ result.hasChanges /\ result.hasConflicts
        /\ IsConflictBlock(result.mergeContent)
        /\ Has(result.mergeContent[3].recs, l)
        /\ Has(result.mergeContent[7].recs, r)

C4_Witness ==
  /\ Done
  /\ \E b \in RecordsIn(Base), l \in RecordsIn(Local), r \in RecordsIn(Remote) :
       TrueConflict(b, l, r)
  /\ Len(Local) = 2
  /\ result.hasConflicts

(***************************************************************************)
(* C5.  Deletion versus edit: base has a record b of command D, one side   *)
(* has no record with command D or -D, the other side changed b's when     *)
(* guard to a non-equivalent guard.  Then hasConflicts is true whichever   *)
(* side deleted; the local part of the block has no record of D when local *)
(* deleted, and still has the edited record when remote deleted.           *)
(***************************************************************************)
Deleted(side, b) ==
  \A i \in 1..Len(side) :
     /\ side[i].command # NameOf(b)
     /\ side[i].command # Cmd(NameOf(b).dash + 1, NameOf(b).name)

C5_DeletionVersusEdit ==
  Done =>
    \A b \in RecordsIn(Base) :
      /\ \A e \in RecordsIn(Remote) :
            (Deleted(Local, b) /\ ChangesGuard(Remote, b, e)) =>
              /\ result.hasConflicts
              /\ IsConflictBlock(result.mergeContent)
              /\ OfCommand(result.mergeContent[3].recs, NameOf(b)) = <<>>
      /\ \A e \in RecordsIn(Local) :
            (Deleted(Remote, b) /\ ChangesGuard(Local, b, e)) =>
              /\ result.hasConflicts
              /\ IsConflictBlock(result.mergeContent)
              /\ Has(result.mergeContent[3].recs, e)

\* Local deleted the command and remote edited it.
C5_Witness ==
  /\ Done
  /\ \E b \in RecordsIn(Base), e \in RecordsIn(Remote) :
       Deleted(Local, b) /\ ChangesGuard(Remote, b, e)
  /\ Len(Local) = 1
  /\ result.hasConflicts

(***************************************************************************)
(* C6.  Divergent non-conflicting merge: base holds records, local is base *)
(* plus records of a new command B, remote is base plus records of another *)
(* new command C on canonical keys that no record of local uses.  Then     *)
(* hasChanges is true, hasConflicts is false and the merged text is        *)
(* local's records in their order followed by remote's records of C.       *)
(***************************************************************************)
Divergent(cb, cc) ==
  /\ HasBase /\ Len(Base) >= 1
  /\ cb # cc
  /\ cb \notin CommandNames(Base) /\ cc \notin CommandNames(Base)
  /\ NotOfCommand(Local, cb) = Base
  /\ NotOfCommand(Remote, cc) = Base
  /\ KeysOf(OfCommand(Remote, cc)) \cap KeysOf(Local) = {}

C6_DivergentMerge ==
  Done =>
    \A cb \in CommandNames(Local), cc \in CommandNames(Remote) :
      Divergent(cb, cc) =>
        result = Outcome(Doc(getEol(localContent), Local \o OfCommand(Remote, cc)),
                         TRUE, FALSE)

C6_Witness ==
  /\ Done
  /\ \E cb \in CommandNames(Local), cc \in CommandNames(Remote) : Divergent(cb, cc)
  /\ Len(parse(result.mergeContent)) = 3
  /\ ~result.hasConflicts

(***************************************************************************)
(* C7.  Equivalent-guard non-conflict: local and remote both add a command *)
(* absent from base, with records equal except for when guards that are    *)
(* spelled differently and are equivalent.  The command is then in none of *)
(* conflicts, added, updated; the merged text keeps local's records for it *)
(* and none of remote's; it is never a conflict.  A guard present on one   *)
(* side and absent on the other is not equal: that command is a conflict.  *)
(***************************************************************************)
EqualButGuard(a, b) == a.command = b.command /\ a.key = b.key /\ a.args = b.args

BothAdd(c) ==
  /\ c \notin CommandNames(Base)
  /\ Len(OfCommand(Local, c)) = Len(OfCommand(Remote, c))
  /\ \A i \in 1..Len(OfCommand(Local, c)) :
        EqualButGuard(OfCommand(Local, c)[i], OfCommand(Remote, c)[i])

EquivalentAdd(c) ==
  /\ BothAdd(c)
  /\ \A i \in 1..Len(OfCommand(Local, c)) :
        EquivalentGuards(OfCommand(Local, c)[i].when, OfCommand(Remote, c)[i].when)
  /\ \E i \in 1..Len(OfCommand(Local, c)) :
        OfCommand(Local, c)[i].when # OfCommand(Remote, c)[i].when

PresentVersusAbsent(c) ==
  /\ BothAdd(c)
  /\ \E i \in 1..Len(OfCommand(Local, c)) :
        (OfCommand(Local, c)[i].when = <<>>) # (OfCommand(Remote, c)[i].when = <<>>)

\* The local part of the returned text: the document itself, or the document
\* before the separator of a conflict block.
LocalPart(text) == IF IsDocument(text) THEN text[1].recs ELSE text[3].recs

C7_EquivalentGuards ==
  Done =>
    \A c \in CommandNames(Local) :
      /\ EquivalentAdd(c) =>
            /\ ~Has(locals.conflicts, c)
            /\ ~Has(locals.commandsMergeResult.conflicts, c)
            /\ ~Has(locals.commandsMergeResult.added, c)
            /\ ~Has(locals.commandsMergeResult.updated, c)
            /\ OfCommand(LocalPart(result.mergeContent), c) = OfCommand(Local, c)
            /\ CommandNames(Local) \cup CommandNames(Remote) = {c} =>
                  ~result.hasConflicts
      /\ PresentVersusAbsent(c) =>
            result.hasConflicts /\ Has(locals.conflicts, c)

\* The command-level merge ran on a command added on both sides under two
\* spellings of one guard, and found no conflict.
C7_Witness ==
  /\ Done
  /\ \E c \in CommandNames(Local) : EquivalentAdd(c)
  /\ locals.keybindingsMergeResult.hasLocalForwarded
  /\ locals.keybindingsMergeResult.hasRemoteForwarded
  /\ result.hasChanges /\ ~result.hasConflicts

(***************************************************************************)
(* C8.  Order sensitivity: if remote is local with records of different    *)
(* canonical keys reordered (every key's own list unchanged), hasChanges   *)
(* is false; if remote is local with two non-equal records of the same     *)
(* canonical key swapped, hasChanges is true.                              *)
(***************************************************************************)
Swap(s, i, j) ==
  [n \in 1..Len(s) |-> IF n = i THEN s[j] ELSE IF n = j THEN s[i] ELSE s[n]]

ReorderedAcrossKeys ==
  /\ Local # Remote
  /\ \A k \in CanonicalKeys : AtKey(Local, k) = AtKey(Remote, k)

SwappedWithinKey ==
  \E i, j \in 1..Len(Local) :
     /\ i < j
     /\ normalizedKeys[Local[i].key] = normalizedKeys[Local[j].key]
     /\ ~SameBinding(Local[i], Local[j])
     /\ Remote = Swap(Local, i, j)

C8_OrderSensitivity ==
  Done =>
    /\ ReorderedAcrossKeys => ~result.hasChanges
    /\ SwappedWithinKey => result.hasChanges

C8_Witness ==
  /\ Done
  /\ SwappedWithinKey
  /\ result.hasChanges

\* The other half: a reordering across keys that is no change.
C8_WitnessAcrossKeys ==
  /\ Done
  /\ ReorderedAcrossKeys
  /\ ~result.hasChanges

(***************************************************************************)
(* C9.  Conflicts arise only on the both-diverged path: hasConflicts       *)
(* implies that local and remote both differ from base at the binding      *)
(* level and that hasChanges is true; on the other three paths             *)
(* hasConflicts is false; on the both-diverged path hasConflicts is        *)
(* exactly "commandsMergeResult.conflicts is non-empty", returned as a     *)
(* value.                                                                  *)
(***************************************************************************)
DiffersFromBase(side) ==
  IF HasBase THEN ~BindingEqual(Base, side) ELSE Len(side) > 0

BothForwarded ==
  /\ locals.keybindingsMergeResult.hasLocalForwarded
  /\ locals.keybindingsMergeResult.hasRemoteForwarded

C9_ConflictsOnlyWhenBothDiverged ==
  Done =>
    /\ result.hasConflicts \in BOOLEAN
    /\ result.hasConflicts =>
          /\ BothForwarded
          /\ DiffersFromBase(Local) /\ DiffersFromBase(Remote)
          /\ result.hasChanges
    /\ ~BothForwarded => ~result.hasConflicts /\ locals.conflicts = <<>>
    /\ BothForwarded => (result.hasConflicts <=> Len(locals.conflicts) > 0)

\* A conflict that only the loops of merge found.
C9_Witness ==
  /\ Done
  /\ result.hasConflicts
  /\ BothForwarded
  /\ locals.commandsMergeResult.conflicts = <<>>

(***************************************************************************)
(* C10.  Conflict block shape: when hasConflicts is true, mergeContent is  *)
(* "<<<<<<< local" eol M eol "=======" eol remoteContent eol               *)
(* ">>>>>>> remote", with eol the line ending of the local text,           *)
(* remoteContent verbatim and M the local text after every non-conflicting *)
(* removed, added and updated command was applied; when hasConflicts is    *)
(* false, the text holds no marker line.                                   *)
(***************************************************************************)
\* M: a command in conflict keeps local's records, a removed one has none, an
\* added or updated one has remote's, any other keeps local's.
Applied(M) ==
  /\ IsDocument(M)
  /\ getEol(M) = getEol(localContent)
  /\ \A c \in CommandNames(Local) \cup CommandNames(Remote) \cup CommandNames(parse(M)) :
        OfCommand(parse(M), c) =
          IF Has(locals.conflicts, c) THEN OfCommand(Local, c)
          ELSE IF Has(locals.commandsMergeResult.removed, c) THEN <<>>
          ELSE IF Has(locals.commandsMergeResult.added, c)
                  \/ Has(locals.commandsMergeResult.updated, c)
            THEN OfCommand(Remote, c)
          ELSE OfCommand(Local, c)

C10_ConflictBlockShape ==
  Done =>
    IF result.hasConflicts
      THEN /\ result.mergeContent =
                <<LocalMarker, Lit(getEol(localContent))>> \o locals.content
                  \o <<Lit(getEol(localContent)), Separator, Lit(getEol(localContent))>>
                  \o remoteContent
                  \o <<Lit(getEol(localContent)), RemoteMarker>>
           /\ Applied(locals.content)
      ELSE IsDocument(result.mergeContent)

\* A conflict block whose local part is not the local text any more, under a
\* line ending that is not remote's.
C10_Witness ==
  /\ Done
  /\ result.hasConflicts
  /\ locals.content # localContent
  /\ getEol(localContent) # getEol(remoteContent)
  /\ IsConflictBlock(result.mergeContent)

(***************************************************************************)
(* C11.  As stated: a null base is "everything is new" at both levels.     *)
(* With no base, (i) if local has no records and remote has some, remote   *)
(* is taken verbatim, and symmetrically local; (ii) if both have records   *)
(* and differ, nothing is in removed or updated, commands only in remote   *)
(* are appended to local, commands only in local are kept, and commands on *)
(* both sides with unequal record lists are conflicts.                     *)
(***************************************************************************)
\* The records that bind and the records that unbind.
Binds(recs) == SelectSeq(recs, LAMBDA r : r.command.dash = 0)

Unbinds(recs) == SelectSeq(recs, LAMBDA r : r.command.dash > 0)

\* Two record lists of one command are equal under command-aware equality.
CommandEqual(x, y) ==
  /\ SameBindings(Binds(x), Binds(y))
  /\ SameBindings(Unbinds(x), Unbinds(y))

NullBaseTakesOneSide ==
  /\ Local = <<>> /\ Remote # <<>> => result = Outcome(remoteContent, TRUE, FALSE)
  /\ Local # <<>> /\ Remote = <<>> => result = Outcome(localContent, TRUE, FALSE)

NullBaseBothDiffer ==
  Local # <<>> /\ Remote # <<>> /\ ~BindingEqual(Local, Remote)

NullBaseNothingRemovedOrUpdated ==
  /\ BothForwarded
  /\ locals.commandsMergeResult.removed = <<>>
  /\ locals.commandsMergeResult.updated = <<>>
  /\ SubSeq(LocalPart(result.mergeContent), 1, Len(Local)) = Local
  /\ \A c \in CommandNames(Local) \ CommandNames(Remote) :
        OfCommand(LocalPart(result.mergeContent), c) = OfCommand(Local, c)
  /\ \A c \in CommandNames(Local) \cap CommandNames(Remote) :
        /\ ~CommandEqual(OfCommand(Local, c), OfCommand(Remote, c)) =>
              Has(locals.conflicts, c)
        /\ OfCommand(LocalPart(result.mergeContent), c) = OfCommand(Local, c)

OnlyInRemote == CommandNames(Remote) \ CommandNames(Local)

C11_NullBase_AsStated ==
  Done /\ ~HasBase =>
    /\ NullBaseTakesOneSide
    /\ NullBaseBothDiffer =>
          /\ NullBaseNothingRemovedOrUpdated
          /\ \A c \in OnlyInRemote :
                OfCommand(LocalPart(result.mergeContent), c) = OfCommand(Remote, c)

(***************************************************************************)
(* C11.  A null base is "everything is new" at both levels.  With no base, *)
(* (i) if local has no records and remote has some, remote is taken        *)
(* verbatim, and symmetrically local; (ii) if both have records and        *)
(* differ, nothing is in removed or updated, local's records stay at the   *)
(* head of the text, commands only in local are kept, commands on both     *)
(* sides with unequal record lists are conflicts, and a command only in    *)
(* remote is appended to local unless one of its binding records uses a    *)
(* canonical key in the binding-level conflict set: then it is a conflict  *)
(* and none of its records is appended.                                    *)
(***************************************************************************)
\* A record of remote that binds c sits on a key in binding-level conflict.
OnConflictingKey(c) ==
  \E i \in 1..Len(Remote) :
     /\ NameOf(Remote[i]) = c /\ Remote[i].command = c
     /\ Has(locals.keybindingsMergeResult.conflicts, normalizedKeys[Remote[i].key])

C11_NullBase ==
  Done /\ ~HasBase =>
    /\ NullBaseTakesOneSide
    /\ NullBaseBothDiffer =>
          /\ NullBaseNothingRemovedOrUpdated
          /\ \A c \in OnlyInRemote :
                IF OnConflictingKey(c)
                  THEN /\ Has(locals.conflicts, c)
                       /\ OfCommand(LocalPart(result.mergeContent), c) = <<>>
                  ELSE /\ ~Has(locals.conflicts, c)
                       /\ OfCommand(LocalPart(result.mergeContent), c)
                            = OfCommand(Remote, c)

\* With no base, one command only in remote is appended and another is a
\* conflict.
C11_Witness ==
  /\ Done /\ ~HasBase
  /\ NullBaseBothDiffer
  /\ \E c \in OnlyInRemote : OnConflictingKey(c) /\ Has(locals.conflicts, c)
  /\ \E c \in OnlyInRemote :
        /\ ~OnConflictingKey(c)
        /\ OfCommand(LocalPart(result.mergeContent), c) = OfCommand(Remote, c)

(***************************************************************************)
(* C12.  merge is side-effect-free and deterministic: no invocation        *)
(* changes the normalization table or one of the three input texts; the    *)
(* key rewriting done for comparison works on copies, so every record of   *)
(* the output is a record of local or of remote with the key as it was     *)
(* spelled; a second invocation on equal inputs returns an equal           *)
(* {mergeContent, hasChanges, hasConflicts}.                               *)
(***************************************************************************)
\* The records of a returned text: of the document, or of both documents of a
\* conflict block.
RecordsOf(text) ==
  IF IsDocument(text) THEN RecordsIn(text[1].recs)
  ELSE RecordsIn(text[3].recs) \cup RecordsIn(text[7].recs)

C13_GuardSetEmpty_AsStated ==
  Done /\ BothForwarded =>
    /\ locals.keybindingsMergeResult.conflicts = <<>>
    /\ locals.conflicts = locals.commandsMergeResult.conflicts

(***************************************************************************)
(* C13.  The binding-level conflict set is empty on the three returns that *)
(* do not reach the guard.  At the guard it holds exactly the canonical    *)
(* keys whose record list local and remote both changed from base (or both *)
(* added) with different results, and it can be non-empty; the guard then  *)
(* makes a conflict of exactly the added and updated commands, not yet in  *)
(* conflict, that have a binding record of remote on such a key.  When the *)
(* set is empty the guard has no effect.                                   *)
(***************************************************************************)
\* Both sides changed the record list of canonical key k, to different lists.
ConflictingKey(k) ==
  /\ ~SameBindings(AtKey(Base, k), AtKey(Local, k))
  /\ ~SameBindings(AtKey(Base, k), AtKey(Remote, k))
  /\ ~SameBindings(AtKey(Local, k), AtKey(Remote, k))

\* The commands the guard makes conflicts of.
Escalated(c) ==
  Has(locals.conflicts, c) /\ ~Has(locals.commandsMergeResult.conflicts, c)

C13_GuardSet ==
  Done =>
    /\ ~BothForwarded => locals.keybindingsMergeResult.conflicts = <<>>
    /\ BothForwarded =>
          /\ RecordsIn(locals.keybindingsMergeResult.conflicts)
               = {k \in CanonicalKeys : ConflictingKey(k)}
          /\ \A c \in CommandNames(Local) \cup CommandNames(Remote) :
                Escalated(c) <=>
                  /\ Has(locals.commandsMergeResult.added, c)
                       \/ Has(locals.commandsMergeResult.updated, c)
                  /\ ~Has(locals.commandsMergeResult.conflicts, c)
                  /\ OnConflictingKey(c)
          /\ locals.keybindingsMergeResult.conflicts = <<>> =>
                locals.conflicts = locals.commandsMergeResult.conflicts

\* The guard made the only conflict of a merge, of an added command.
C13_Witness ==
  /\ Done /\ BothForwarded
  /\ locals.keybindingsMergeResult.conflicts # <<>>
  /\ locals.commandsMergeResult.conflicts = <<>>
  /\ \E c \in CommandNames(Remote) :
        Escalated(c) /\ Has(locals.commandsMergeResult.added, c)
  /\ result.hasConflicts

(***************************************************************************)
(* C14.  As stated: in the final command-level merge result merge acts on, *)
(* no command is in conflicts and at the same time in added, removed or    *)
(* updated; a command once in conflicts is skipped by every later rule and *)
(* is never applied to the text.                                           *)
(***************************************************************************)
\* The commands of the command-level result that are placed for application.
Placed ==
  RecordsIn(locals.commandsMergeResult.added)
    \cup RecordsIn(locals.commandsMergeResult.removed)
    \cup RecordsIn(locals.commandsMergeResult.updated)

\* The text merge built holds local's records of c, untouched.
NeverApplied(c) ==
  OfCommand(LocalPart(result.mergeContent), c) = OfCommand(Local, c)

C14_ConflictsExcluded_AsStated ==
  Done /\ BothForwarded =>
    \A c \in RecordsIn(locals.conflicts) : c \notin Placed /\ NeverApplied(c)

(***************************************************************************)
(* C14.  In the command-level merge result as computeMergeResult returns   *)
(* it, no command is in conflicts and at the same time in added, removed   *)
(* or updated.  The guard of merge then adds added and updated commands to *)
(* conflicts, which stay in added or updated.  A command in conflicts,     *)
(* however it got there, is skipped by every later rule and is never       *)
(* applied to the text.                                                    *)
(***************************************************************************)
C14_ConflictsExcluded ==
  Done /\ BothForwarded =>
    /\ RecordsIn(locals.commandsMergeResult.conflicts) \cap Placed = {}
    /\ \A c \in RecordsIn(locals.conflicts) :
          /\ c \in Placed =>
                /\ Escalated(c)
                /\ c \notin RecordsIn(locals.commandsMergeResult.removed)
          /\ NeverApplied(c)

\* A command the guard made a conflict of is still in added, next to a
\* conflict computeMergeResult found, and neither is applied.
C14_Witness ==
  /\ Done /\ BothForwarded
  /\ locals.commandsMergeResult.conflicts # <<>>
  /\ \E c \in RecordsIn(locals.conflicts) : c \in Placed /\ NeverApplied(c)

(***************************************************************************)
(* C15.  As stated: in the command-level fold, a command removed on        *)
(* exactly one side (and not updated on the other) is placed in removed, a *)
(* command added on exactly one side is placed in added, and a command     *)
(* updated on exactly one side (and not removed on the other) is placed in *)
(* updated, for local-only changes as well as remote-only changes.         *)
(***************************************************************************)
Sides == {"local", "remote"}

Side(s) == IF s = "local" THEN Local ELSE Remote

Other(s) == IF s = "local" THEN "remote" ELSE "local"

AddedBy(s, c) == c \notin CommandNames(Base) /\ c \in CommandNames(Side(s))

RemovedBy(s, c) == c \in CommandNames(Base) /\ c \notin CommandNames(Side(s))

UpdatedBy(s, c) ==
  /\ c \in CommandNames(Base) /\ c \in CommandNames(Side(s))
  /\ ~CommandEqual(OfCommand(Base, c), OfCommand(Side(s), c))

AllCommands == CommandNames(Base) \cup CommandNames(Local) \cup CommandNames(Remote)

C15_OneSidedChanges_AsStated ==
  Done /\ BothForwarded =>
    \A c \in AllCommands : \A s \in Sides :
      /\ RemovedBy(s, c) /\ ~RemovedBy(Other(s), c) /\ ~UpdatedBy(Other(s), c) =>
            Has(locals.commandsMergeResult.removed, c)
      /\ AddedBy(s, c) /\ ~AddedBy(Other(s), c) =>
            Has(locals.commandsMergeResult.added, c)
      /\ UpdatedBy(s, c) /\ ~UpdatedBy(Other(s), c) /\ ~RemovedBy(Other(s), c) =>
            Has(locals.commandsMergeResult.updated, c)

(***************************************************************************)
(* C15.  The command-level fold records the changes remote made, to be     *)
(* applied to the local text: removed holds exactly the commands remote    *)
(* removed and local did not update, added exactly the commands remote     *)
(* added and local did not, updated exactly the commands remote updated    *)
(* and local neither updated nor removed.  A command only local changed is *)
(* in none of the four sets.                                               *)
(***************************************************************************)
C15_OneSidedChanges ==
  Done /\ BothForwarded =>
    \A c \in AllCommands :
      /\ Has(locals.commandsMergeResult.removed, c) <=>
            RemovedBy("remote", c) /\ ~UpdatedBy("local", c)
      /\ Has(locals.commandsMergeResult.added, c) <=>
            AddedBy("remote", c) /\ ~AddedBy("local", c)
      /\ Has(locals.commandsMergeResult.updated, c) <=>
            UpdatedBy("remote", c) /\ ~UpdatedBy("local", c) /\ ~RemovedBy("local", c)
      /\ (AddedBy("local", c) \/ RemovedBy("local", c) \/ UpdatedBy("local", c))
           /\ ~(AddedBy("remote", c) \/ RemovedBy("remote", c) \/ UpdatedBy("remote", c))
           => c \notin Placed /\ ~Has(locals.conflicts, c)

\* Local alone added one command and remote alone removed another: only the
\* second is recorded.
C15_Witness ==
  /\ Done /\ BothForwarded
  /\ \E c \in AllCommands :
        /\ AddedBy("local", c) /\ ~AddedBy("remote", c)
        /\ c \notin Placed
  /\ \E c \in AllCommands :
        /\ RemovedBy("remote", c) /\ ~RemovedBy("local", c)
        /\ Has(locals.commandsMergeResult.removed, c)

(***************************************************************************)
(* C16.  Escalation guard: for an added or updated command that is not a   *)
(* conflict, if one of remote's binding records for it has a canonical key *)
(* in the binding-level conflict set, the command is put in conflicts,     *)
(* hasConflicts is true and none of remote's records for it is written to  *)
(* the text; otherwise remote's records for it are written, and unbinding  *)
(* ("-command") records never trigger the guard.                           *)
(***************************************************************************)
\* The commands the loops of merge reach the guard with.
Guarded ==
  (RecordsIn(locals.commandsMergeResult.added)
     \cup RecordsIn(locals.commandsMergeResult.updated))
    \ RecordsIn(locals.commandsMergeResult.conflicts)

\* Remote unbinds c on a key in binding-level conflict.
UnbindsOnConflictingKey(c) ==
  \E i \in 1..Len(Remote) :
     /\ NameOf(Remote[i]) = c /\ Remote[i].command # c
     /\ Has(locals.keybindingsMergeResult.conflicts, normalizedKeys[Remote[i].key])

C16_EscalationGuard ==
  Done /\ BothForwarded =>
    \A c \in Guarded :
      IF OnConflictingKey(c)
        THEN /\ Has(locals.conflicts, c)
             /\ result.hasConflicts
             /\ NeverApplied(c)
        ELSE /\ ~Has(locals.conflicts, c)
             /\ OfCommand(LocalPart(result.mergeContent), c) = OfCommand(Remote, c)

\* The guard stopped an updated command whose new records differ from
\* local's.
C16_Witness ==
  /\ Done /\ BothForwarded
  /\ \E c \in RecordsIn(locals.commandsMergeResult.updated) :
        /\ OnConflictingKey(c)
        /\ Escalated(c)
        /\ OfCommand(Remote, c) # OfCommand(Local, c)
        /\ NeverApplied(c)

\* The guard let through an added command that remote only unbinds on a
\* conflicting key.
C16_WitnessUnbinding ==
  /\ Done /\ BothForwarded
  /\ \E c \in RecordsIn(locals.commandsMergeResult.added) :
        /\ UnbindsOnConflictingKey(c) /\ ~OnConflictingKey(c)
        /\ OfCommand(LocalPart(result.mergeContent), c) = OfCommand(Remote, c)

(***************************************************************************)
(* C17.  The three binding-level cases are exhaustive: whenever the        *)
(* compare of local to remote is non-empty, compare(base, local) or        *)
(* compare(base, remote) is non-empty, with a null base too.  So the       *)
(* return "remote forwarded", taken as soon as baseToLocal is empty and    *)
(* before baseToRemote is computed, is taken exactly when baseToLocal is   *)
(* empty and baseToRemote is not.                                          *)
(***************************************************************************)
ByKey ==
  KeybindingCompares(Local, Remote, IF HasBase THEN <<Base>> ELSE <<>>, normalizedKeys)

RemoteForwardedOnly ==
  /\ ~locals.keybindingsMergeResult.hasLocalForwarded
  /\ locals.keybindingsMergeResult.hasRemoteForwarded

C17_CasesExhaustive ==
  Done =>
    LET byKey == ByKey
        localToRemoteEmpty == IsEmptyCompare(byKey.localToRemote)
        baseToLocalEmpty   == IsEmptyCompare(byKey.baseToLocal)
        baseToRemoteEmpty  == IsEmptyCompare(byKey.baseToRemote)
    IN  /\ ~localToRemoteEmpty => ~baseToLocalEmpty \/ ~baseToRemoteEmpty
        /\ RemoteForwardedOnly <=>
              ~localToRemoteEmpty /\ baseToLocalEmpty /\ ~baseToRemoteEmpty
        /\ RemoteForwardedOnly => DiffersFromBase(Remote) /\ ~DiffersFromBase(Local)

\* "Remote forwarded" was returned for a local text that is not the base
\* text and equals it only under the comparison of records.
C17_Witness ==
  /\ Done /\ HasBase
  /\ RemoteForwardedOnly
  /\ Local # Base

(***************************************************************************)
(* C18.  No internal invariant violation is reachable from parseable       *)
(* inputs: every key in the updated set of a compare result is in both     *)
(* groupings compared; every command merge applies from added or updated   *)
(* has a record list in remote's by-command grouping; for every updated    *)
(* command applied, the text holds a record of the command, so the insert  *)
(* position updateKeybindings finds is >= 0.                               *)
(***************************************************************************)
BaseBox == IF HasBase THEN <<Base>> ELSE <<>>

ByCommand == CommandCompares(Local, Remote, BaseBox, normalizedKeys)

\* The text and conflicts the loop over the updated commands starts from.
BeforeUpdatedLoop ==
  AddedLoop(RemovedLoop([content |-> localContent,
                         conflicts |-> locals.commandsMergeResult.conflicts],
                        locals.commandsMergeResult.removed),
            locals.commandsMergeResult.added, byCommand(Remote),
            locals.keybindingsMergeResult.conflicts, normalizedKeys)

Locations ==
  UpdatedLocations(BeforeUpdatedLoop, locals.commandsMergeResult.updated,
                   byCommand(Remote), locals.keybindingsMergeResult.conflicts,
                   normalizedKeys)

UpdatedInBothGroupings ==
  /\ \A k \in RecordsIn(ByKey.localToRemote.updated) :
        Has(byKeybinding(Local, normalizedKeys).order, k)
          /\ Has(byKeybinding(Remote, normalizedKeys).order, k)
  /\ \A k \in RecordsIn(ByKey.baseToLocal.updated) \cup RecordsIn(ByKey.baseToRemote.updated) :
        HasBase /\ Has(byKeybinding(Base, normalizedKeys).order, k)
  /\ \A c \in RecordsIn(ByCommand.localToRemote.updated) :
        Has(byCommand(Local).order, c) /\ Has(byCommand(Remote).order, c)
  /\ \A c \in RecordsIn(ByCommand.baseToLocal.updated)
                \cup RecordsIn(ByCommand.baseToRemote.updated) :
        HasBase /\ Has(byCommand(Base).order, c)

C18_NoInternalViolation ==
  Done =>
    /\ UpdatedInBothGroupings
    /\ BothForwarded =>
          /\ \A c \in RecordsIn(locals.commandsMergeResult.added)
                        \cup RecordsIn(locals.commandsMergeResult.updated) :
                Has(byCommand(Remote).order, c)
          /\ \A i \in 1..Len(Locations) : Locations[i] >= 0

(***************************************************************************)
(* C19.  Postcondition of a conflict-free divergent merge: when both sides *)
(* have moved from base and hasConflicts is false, for every command name  *)
(* c, if remote's record list for c differs from base's (c added, removed  *)
(* or updated by remote, under command-aware equality) the merged text's   *)
(* records for c equal remote's records for c, none when remote has none;  *)
(* otherwise they are local's records for c.                               *)
(***************************************************************************)
ChangedByRemote(c) ==
  AddedBy("remote", c) \/ RemovedBy("remote", c) \/ UpdatedBy("remote", c)

Merged(c) == OfCommand(parse(result.mergeContent), c)

C19_CommandPostcondition ==
  Done /\ BothForwarded /\ ~result.hasConflicts =>
    \A c \in AllCommands \cup CommandNames(parse(result.mergeContent)) :
      IF ChangedByRemote(c)
        THEN /\ CommandEqual(Merged(c), OfCommand(Remote, c))
             /\ c \in Placed => Merged(c) = OfCommand(Remote, c)
        ELSE Merged(c) = OfCommand(Local, c)

(***************************************************************************)
(* C20.  As stated: a binding-level conflict is never dropped silently.    *)
(* Whenever a canonical key has a record list that local and remote both   *)
(* changed from base (or both added), with different results, merge        *)
(* returns hasConflicts = true.                                            *)
(***************************************************************************)
C20_ConflictNeverDropped_AsStated ==
  Done => ((\E k \in CanonicalKeys : ConflictingKey(k)) => result.hasConflicts)

(***************************************************************************)
(* C20.  A binding-level conflict reaches the result only through the      *)
(* command level.  Once both sides have moved from base at the binding     *)
(* level, hasConflicts is true exactly when some command was               *)
(* changed by both sides to different record lists, or remote added or     *)
(* updated a command local left alone and binds it on a conflicting key.   *)
(* A conflicting key without such a command is dropped: hasConflicts is    *)
(* false and the conflict leaves no trace in the result.                   *)
(***************************************************************************)
ChangedByLocal(c) ==
  AddedBy("local", c) \/ RemovedBy("local", c) \/ UpdatedBy("local", c)

\* Both sides changed the command, to different record lists.
CommandConflict(c) ==
  /\ ChangedByLocal(c) /\ ChangedByRemote(c)
  /\ ~CommandEqual(OfCommand(Local, c), OfCommand(Remote, c))

\* Remote alone added or updated the command and binds it on a key that is
\* in conflict.
BoundOnConflictingKey(c) ==
  /\ ChangedByRemote(c) /\ ~ChangedByLocal(c)
  /\ \E i \in 1..Len(Remote) :
        /\ NameOf(Remote[i]) = c /\ Remote[i].command = c
        /\ ConflictingKey(normalizedKeys[Remote[i].key])

C20_ConflictThroughCommands ==
  Done =>
    /\ ~BothForwarded => ~result.hasConflicts
    /\ BothForwarded =>
          /\ result.hasConflicts <=>
                \E c \in AllCommands : CommandConflict(c) \/ BoundOnConflictingKey(c)
          /\ \A c \in AllCommands :
                Has(locals.conflicts, c) <=>
                  CommandConflict(c) \/ BoundOnConflictingKey(c)

\* A key is in conflict at the binding level and merge returns a merged text
\* without conflicts.
C20_Witness ==
  /\ Done /\ BothForwarded
  /\ \E k \in CanonicalKeys :
        ConflictingKey(k) /\ Has(locals.keybindingsMergeResult.conflicts, k)
  /\ ~result.hasConflicts
  /\ IsDocument(result.mergeContent)

(***************************************************************************)
(* C21 as stated.  The two levels agree on whether two snapshots differ:   *)
(* for each of the pairs (local, remote), (base, local), (base, remote)    *)
(* the compare by canonical key is empty if and only if the compare by     *)
(* command is empty; a side Level 1 classifies as not forwarded has no     *)
(* command-level change, and on the both-diverged path the command-level   *)
(* compare of local and remote is not empty.                               *)
(***************************************************************************)
NoDifference(c) == c.added = <<>> /\ c.removed = <<>> /\ c.updated = <<>>

Pairs == {"localToRemote", "baseToLocal", "baseToRemote"}

C21_LevelsAgree_AsStated ==
  /\ pc = "compared" =>
        \A p \in Pairs :
           NoDifference(compared.byKeybinding[p]) <=> NoDifference(compared.byCommand[p])
  /\ Done =>
        /\ ~locals.keybindingsMergeResult.hasLocalForwarded =>
              NoDifference(compared.byCommand.baseToLocal)
        /\ ~locals.keybindingsMergeResult.hasRemoteForwarded =>
              NoDifference(compared.byCommand.baseToRemote)
        /\ BothForwarded => ~NoDifference(compared.byCommand.localToRemote)

(***************************************************************************)
(* C21 as amended.  The compare by canonical key is empty exactly when,    *)
(* for every canonical key, the two lists hold equal records in the same   *)
(* order; the compare by command is empty exactly when, for every command, *)
(* the bindings and the unbindings of the two lists are equal in order.    *)
(* The two can disagree only on two lists that hold the same records the   *)
(* same number of times in a different order.  When the both-diverged path *)
(* finds no command-level difference between local and remote, merge       *)
(* reports hasChanges = true and hasConflicts = false.                     *)
(***************************************************************************)
\* Two record lists are equal at the command level.
CommandLevelEqual(x, y) ==
  \A c \in CommandNames(x) \cup CommandNames(y) :
     CommandEqual(OfCommand(x, c), OfCommand(y, c))

Count(recs, r) == Len(SelectSeq(recs, LAMBDA q : SameBinding(q, r)))

\* The two lists are reorderings of one another.
Reordered(x, y) ==
  /\ \A r \in RecordsIn(x) \cup RecordsIn(y) : Count(x, r) = Count(y, r)
  /\ ~SameBindings(x, y)

\* The two snapshots a pair compares; the base counts as empty when absent.
From(p) == IF p = "localToRemote" THEN Local ELSE Base

To(p) == IF p = "baseToLocal" THEN Local ELSE Remote

C21_LevelsCompared ==
  /\ pc = "compared" =>
        \A p \in Pairs :
           LET byKey == NoDifference(compared.byKeybinding[p])
               byCmd == NoDifference(compared.byCommand[p])
           IN  /\ byKey <=> BindingEqual(From(p), To(p))
               /\ byCmd <=> CommandLevelEqual(From(p), To(p))
               /\ byKey # byCmd => Reordered(From(p), To(p))
  /\ Done /\ BothForwarded /\ NoDifference(compared.byCommand.localToRemote) =>
        result.hasChanges /\ ~result.hasConflicts

\* The both-diverged path has run on a local and a remote between which the
\* compare by command finds no difference.
C21_Witness ==
  /\ Done /\ BothForwarded
  /\ NoDifference(compared.byCommand.localToRemote)
  /\ ~NoDifference(compared.byKeybinding.localToRemote)

(***************************************************************************)
(* C22 as stated.  Conflict detection is symmetric in its two sides:       *)
(* merge(L, R, B, N).hasConflicts equals merge(R, L, B, N).hasConflicts.   *)
(***************************************************************************)
Exchanging == pc = "done" /\ pc' = "exchanged"

C22_Symmetric_AsStated ==
  [][Exchanging => result'.hasConflicts = result.hasConflicts]_vars

(***************************************************************************)
(* C22 as amended.  With the two sides exchanged merge reports the same    *)
(* hasChanges and computeMergeResult finds the same set of conflicting     *)
(* commands.  hasConflicts differs between the two orders only when that   *)
(* set is empty and the invocation that reports a conflict escalated a     *)
(* command of its remote side, which binds a key in the binding-level      *)
(* conflicts.                                                              *)
(***************************************************************************)
C22_SymmetricButEscalation ==
  [][Exchanging =>
       /\ result'.hasChanges = result.hasChanges
       /\ RecordsIn(locals'.commandsMergeResult.conflicts)
             = RecordsIn(locals.commandsMergeResult.conflicts)
       /\ RecordsIn(locals'.keybindingsMergeResult.conflicts)
             = RecordsIn(locals.keybindingsMergeResult.conflicts)
       /\ result'.hasConflicts # result.hasConflicts =>
             /\ locals.commandsMergeResult.conflicts = <<>>
             /\ locals.keybindingsMergeResult.conflicts # <<>>
             /\ result.hasConflicts => locals.conflicts # <<>>
             /\ result'.hasConflicts => locals'.conflicts # <<>>]_vars

\* The exchanged invocation reports a conflict, by escalation alone, where
\* the first invocation reported none.
C22_Witness ==
  /\ pc = "exchanged"
  /\ result.hasConflicts
  /\ locals.commandsMergeResult.conflicts = <<>>
  /\ ~merge(remoteContent, localContent, baseContent, normalizedKeys).outcome.hasConflicts

(***************************************************************************)
(* C23.  Update placement: for each applied updated command c, the text    *)
(* passed to the step holds a record of c or -c; the text returned holds,  *)
(* as its records of c or -c, exactly remote's records for c, contiguous   *)
(* and in remote's order, starting at the index where the first record of  *)
(* c or -c was; and the records of other commands are those of the text    *)
(* passed, in the same order.                                              *)
(***************************************************************************)
\* The record's command is c or -c.
Matches(r, c) == r.command = c \/ r.command = Cmd(c.dash + 1, c.name)

Matching(recs, c) == SelectSeq(recs, LAMBDA r : Matches(r, c))

NotMatching(recs, c) == SelectSeq(recs, LAMBDA r : ~Matches(r, c))

\* The index of the first record of c or -c, 0 when there is none.
FirstMatching(recs, c) ==
  IF \E i \in 1..Len(recs) : Matches(recs[i], c)
    THEN CHOOSE i \in 1..Len(recs) :
           Matches(recs[i], c) /\ \A j \in 1..(i - 1) : ~Matches(recs[j], c)
    ELSE 0

UpdateSteps ==
  UpdatedSteps(BeforeUpdatedLoop, locals.commandsMergeResult.updated,
               byCommand(Remote), locals.keybindingsMergeResult.conflicts,
               normalizedKeys)

C23_UpdatePlacement ==
  Done =>
    \A i \in 1..Len(UpdateSteps) :
       LET c      == UpdateSteps[i].command
           before == parse(UpdateSteps[i].before)
           after  == parse(UpdateSteps[i].after)
           first  == FirstMatching(before, c)
           theirs == OfCommand(Remote, c)
       IN  /\ first > 0
           /\ Matching(after, c) = theirs
           /\ first + Len(theirs) - 1 <= Len(after)
           /\ SubSeq(after, first, first + Len(theirs) - 1) = theirs
           /\ NotMatching(after, c) = NotMatching(before, c)

(***************************************************************************)
(* C24.  Removal step: for each applied removed command c, the text        *)
(* returned by the step holds exactly the records of the text passed whose *)
(* command is neither c nor -c, in their original relative order: every    *)
(* record of c or -c is deleted, also when several are, and no other.      *)
(***************************************************************************)
RemovalSteps ==
  RemovedSteps([content |-> localContent,
                conflicts |-> locals.commandsMergeResult.conflicts],
               locals.commandsMergeResult.removed)

C24_RemovalStep ==
  Done =>
    \A i \in 1..Len(RemovalSteps) :
       LET c      == RemovalSteps[i].command
           before == parse(RemovalSteps[i].before)
           after  == parse(RemovalSteps[i].after)
       IN  /\ after = NotMatching(before, c)
           /\ getEol(RemovalSteps[i].after) = getEol(RemovalSteps[i].before)
           /\ ~Has(locals.commandsMergeResult.conflicts, c)

\* A removal step has deleted two records of one scan.
C24_Witness ==
  /\ Done
  /\ \E i \in 1..Len(RemovalSteps) :
        /\ Len(Matching(parse(RemovalSteps[i].before), RemovalSteps[i].command)) = 2
        /\ parse(RemovalSteps[i].after) = <<>>

\* A removal step has deleted one record and kept another.
C24_WitnessKept ==
  /\ Done
  /\ \E i \in 1..Len(RemovalSteps) :
        /\ Len(parse(RemovalSteps[i].before)) = 2
        /\ Len(parse(RemovalSteps[i].after)) = 1

(***************************************************************************)
(* C25.  Raw key spelling is irrelevant to change detection: when two      *)
(* snapshots differ only in raw key strings that the table maps to the     *)
(* same canonical key, the compare by key and the compare by command both  *)
(* report no added, removed or updated entry, and merge of a local and a   *)
(* remote that differ only this way returns hasChanges = false.            *)
(***************************************************************************)
SameButSpelling(x, y) ==
  /\ Len(x) = Len(y)
  /\ \A i \in 1..Len(x) :
        /\ x[i].command = y[i].command
        /\ x[i].when = y[i].when
        /\ x[i].args = y[i].args
        /\ normalizedKeys[x[i].key] = normalizedKeys[y[i].key]

\* The pairs the compare functions are called on.
ComparedPairs == IF HasBase THEN Pairs ELSE {"localToRemote"}

C25_SpellingIrrelevant ==
  /\ pc = "compared" =>
        \A p \in ComparedPairs :
           SameButSpelling(From(p), To(p)) =>
             /\ NoDifference(compared.byKeybinding[p])
             /\ NoDifference(compared.byCommand[p])
  /\ Done /\ SameButSpelling(Local, Remote) => ~result.hasChanges

\* merge has returned on a local and a remote that spell a key differently
\* and are otherwise the same.
C25_Witness ==
  /\ Done
  /\ SameButSpelling(Local, Remote)
  /\ \E i \in 1..Len(Local) : Local[i].key # Remote[i].key
  /\ ~result.hasChanges
  /\ NoDifference(compared.byCommand.localToRemote)

(***************************************************************************)
(* C26.  Command-aware equality: for a command c present on both sides,    *)
(* the compare by command reports c as updated exactly when the ordered    *)
(* lists of the records of c differ between the sides or the ordered lists *)
(* of the records of -c do, in length, content or order; how the records   *)
(* of c and of -c are interleaved makes no difference.                     *)
(***************************************************************************)
\* The records whose command is exactly cmd, in document order.
WithCommand(recs, cmd) == SelectSeq(recs, LAMBDA r : r.command = cmd)

\* Within the group of c, the records of c are the same on both sides and
\* the records of -c are.
SubListsEqual(x, y, c) ==
  /\ SameBindings(WithCommand(OfCommand(x, c), c), WithCommand(OfCommand(y, c), c))
  /\ SameBindings(WithCommand(OfCommand(x, c), Cmd(c.dash + 1, c.name)),
                  WithCommand(OfCommand(y, c), Cmd(c.dash + 1, c.name)))

C26_CommandAwareEquality ==
  pc = "compared" =>
    \A p \in ComparedPairs :
       /\ RecordsIn(compared.byCommand[p].updated)
             \subseteq CommandNames(From(p)) \cap CommandNames(To(p))
       /\ \A c \in CommandNames(From(p)) \cap CommandNames(To(p)) :
             Has(compared.byCommand[p].updated, c) <=> ~SubListsEqual(From(p), To(p), c)

\* A command is not reported as updated although its binding and its
\* unbinding are interleaved differently on the two sides.
C26_Witness ==
  /\ pc = "compared"
  /\ \E c \in CommandNames(Local) \cap CommandNames(Remote) :
        /\ ~Has(compared.byCommand.localToRemote.updated, c)
        /\ Len(OfCommand(Local, c)) = 2
        /\ ~SameBindings(OfCommand(Local, c), OfCommand(Remote, c))

\* A command is reported as updated because the order of its bindings
\* differs.
C26_WitnessOrder ==
  /\ pc = "compared"
  /\ \E c \in CommandNames(Local) \cap CommandNames(Remote) :
        /\ Has(compared.byCommand.localToRemote.updated, c)
        /\ Reordered(WithCommand(OfCommand(Local, c), c),
                     WithCommand(OfCommand(Remote, c), c))

(***************************************************************************)
(* C27.  For both compare functions and every pair of snapshots compared,  *)
(* added is exactly the keys of `to` absent from `from`, removed exactly   *)
(* the keys of `from` absent from `to`, updated exactly the keys present   *)
(* in both whose record lists are unequal; the three sets are pairwise     *)
(* disjoint, and a key in none of them is present on both sides with       *)
(* equal lists.                                                            *)
(***************************************************************************)
\* A set kept as a sequence lists each member once.
IsSet(s) == Cardinality(RecordsIn(s)) = Len(s)

\* The result c compares groupings with the keys fromKeys and toKeys whose
\* groups are equal exactly on the keys of equalOn.
IsCompareOf(c, fromKeys, toKeys, equalOn) ==
  /\ IsSet(c.added) /\ IsSet(c.removed) /\ IsSet(c.updated)
  /\ RecordsIn(c.added) = toKeys \ fromKeys
  /\ RecordsIn(c.removed) = fromKeys \ toKeys
  /\ RecordsIn(c.updated) = (fromKeys \cap toKeys) \ equalOn
  /\ RecordsIn(c.added) \cap RecordsIn(c.removed) = {}
  /\ RecordsIn(c.added) \cap RecordsIn(c.updated) = {}
  /\ RecordsIn(c.removed) \cap RecordsIn(c.updated) = {}
  /\ (fromKeys \cup toKeys)
        \ (RecordsIn(c.added) \cup RecordsIn(c.removed) \cup RecordsIn(c.updated))
      = (fromKeys \cap toKeys) \cap equalOn

C27_CompareSets ==
  pc = "compared" =>
    \A p \in ComparedPairs :
       /\ IsCompareOf(compared.byKeybinding[p], KeysOf(From(p)), KeysOf(To(p)),
                      {k \in CanonicalKeys :
                         SameBindings(AtKey(From(p), k), AtKey(To(p), k))})
       /\ IsCompareOf(compared.byCommand[p], CommandNames(From(p)), CommandNames(To(p)),
                      {c \in CommandNames(From(p)) \cup CommandNames(To(p)) :
                         SubListsEqual(From(p), To(p), c)})

\* One compare of local and remote reports an added and a removed key, the
\* other an updated one.
C27_Witness ==
  /\ pc = "compared"
  /\ compared.byKeybinding.localToRemote.added # <<>>
  /\ compared.byKeybinding.localToRemote.removed # <<>>
  /\ compared.byCommand.localToRemote.updated # <<>>
  /\ HasBase /\ compared.byKeybinding.baseToLocal.updated # <<>>

(***************************************************************************)
(* C28.  The text edits for a command touch exactly that command's group:  *)
(* for every command name c of the by-command grouping, also one that      *)
(* begins with '-', a removal step leaves no record of the group of c and  *)
(* an update step leaves remote's records of the group as its only         *)
(* records, and both leave the records of every other group as they were,  *)
(* in the same order.                                                      *)
(***************************************************************************)
C28_EditsTouchOwnGroup ==
  Done =>
    /\ \A i \in 1..Len(RemovalSteps) :
          LET c      == RemovalSteps[i].command
              before == parse(RemovalSteps[i].before)
              after  == parse(RemovalSteps[i].after)
          IN  /\ OfCommand(after, c) = <<>>
              /\ NotOfCommand(after, c) = NotOfCommand(before, c)
    /\ \A i \in 1..Len(UpdateSteps) :
          LET c      == UpdateSteps[i].command
              before == parse(UpdateSteps[i].before)
              after  == parse(UpdateSteps[i].after)
          IN  /\ OfCommand(after, c) = OfCommand(Remote, c)
              /\ NotOfCommand(after, c) = NotOfCommand(before, c)

(***************************************************************************)
(* Scrollable: claims C29 and C30                                          *)
(***************************************************************************)
\* The last step was an animation tick that reported done, and the listener
\* it fired made one of the calls in kinds or none.
Concluded(kinds) ==
  /\ last.ticked
  /\ last.isDone
  /\ last.reaction \in kinds \cup {"none"}

\* C29 as stated: getFutureScrollPosition returns the target of the running
\* smooth scroll, or the current position when none is running, and when a
\* tick reports done with no setScrollPositionNow or setScrollPositionSmooth
\* call in between, the position after it is the one getFutureScrollPosition
\* returned just before it.
C29_ConcludesAtFuture_AsStated ==
  [][Concluded({"dispose", "setScrollDimensions"})'
       => Position(state') = getFutureScrollPosition(This)]_vars

\* C29, amended: the same, when the listener fired by that tick does not
\* call setScrollDimensions either.
C29_ConcludesAtFuture ==
  [][Concluded({"dispose"})'
       => Position(state') = getFutureScrollPosition(This)]_vars

\* A smooth scroll has concluded away from the top, its listener silent.
C29_Witness ==
  /\ Concluded({})
  /\ ~error
  /\ state.scrollTop > 0

\* A smooth scroll has concluded in a tick whose listener disposed the
\* Scrollable.
C29_WitnessDisposed ==
  /\ Concluded({"dispose"})
  /\ last.reaction = "dispose"
  /\ state.scrollTop > 0

\* C30: after any sequence of setScrollPositionSmooth, setScrollPositionNow,
\* setScrollDimensions, dispose and animation-frame callbacks, also with a
\* listener that calls back into the Scrollable from inside a tick, a
\* scheduled callback is outstanding exactly when a smooth-scrolling
\* operation is active, at most one callback is outstanding, and no handler
\* has dereferenced a null operation.
C30_CallbackFollowsOperation ==
  /\ ~error
  /\ (frames # {}) <=> (smoothScrolling # <<>>)
  /\ Cardinality(frames) <= 1

====
